---- MODULE Spec2Model ----
(***************************************************************************)
(* Model of the zuulcilint checkers (src/zuulcilint/checker.py).           *)
(*                                                                         *)
(* Python dicts are functions whose DOMAIN is the set of keys present, so  *)
(* a missing key (KeyError, .get() default) is decided by DOMAIN.  Values  *)
(* that the code tells apart with isinstance() carry a tag t ("str",       *)
(* "dict", "list") and the value v.  Job, semaphore and path names are     *)
(* small integers standing for distinct strings.                           *)
(***************************************************************************)
EXTENDS Integers, Sequences, FiniteSets, TLC

\* ------------------------------------------------------------------- state
\* check_duplicated_jobs: the argument, the loop position, the three local
\* sets and the returned set.
VARIABLES jobs, dj_pc, dj_idx, seen_items, duplicated_items, unique_items, dj_result

\* check_duplicate_semaphore: the argument, the loop position, the two local
\* dicts (_job_semaphore_list, _run_semaphore_list) and the returned set.
VARIABLES sem_jobs, sem_pc, sem_idx, job_semaphore_list, run_semaphore_list,
          duplicate_semaphores

\* check_job_playbook_paths: the argument, the paths that exist on disk, the
\* loop position and the local list, which is also the returned list.
VARIABLES pp_job, pp_fs, pp_pc, pp_idx, invalid_paths

\* check_inexistent_nodesets: the two arguments, the loop position, the set
\* of known names (nodeset_list) and the returned set.
VARIABLES ns_nodesets, ns_jobs, ns_pc, ns_idx, nodeset_list, inexistent_nodesets

\* get_zuul_yaml_files: the file tree, the path given, the frames of the
\* recursion (each with its own zuul_yaml_files) and the returned dictionary.
VARIABLES yf_tree, yf_path, yf_stack, yf_pc, zuul_yaml_files

\* get_zuul_object_from_yaml: the file, the object type asked for, the
\* position in the comprehension, the list built and the exit status.
VARIABLES oy_file, oy_type, oy_pc, oy_idx, oy_objs, oy_status

\* main and print_results: the .yaml and .yml files found, the filesystem the
\* playbook paths are tested on, the command-line flags, the results
\* dictionary, the position in main, what was printed, the exit status.
VARIABLES good_yaml, bad_yaml, main_fs, args, results, main_pc, report, exit_status

\* What callers have received: <<checker, arguments, returned value>>.
VARIABLE returned

dj_vars == <<jobs, dj_pc, dj_idx, seen_items, duplicated_items, unique_items, dj_result>>

sem_vars == <<sem_jobs, sem_pc, sem_idx, job_semaphore_list, run_semaphore_list,
              duplicate_semaphores>>

pp_vars == <<pp_job, pp_fs, pp_pc, pp_idx, invalid_paths>>

ns_vars == <<ns_nodesets, ns_jobs, ns_pc, ns_idx, nodeset_list, inexistent_nodesets>>

yf_vars == <<yf_tree, yf_path, yf_stack, yf_pc, zuul_yaml_files>>

oy_vars == <<oy_file, oy_type, oy_pc, oy_idx, oy_objs, oy_status>>

main_vars == <<good_yaml, bad_yaml, main_fs, args, results, main_pc, report, exit_status>>

vars == <<dj_vars, sem_vars, pp_vars, ns_vars, returned, yf_vars, oy_vars, main_vars>>

\* What a call of one checker leaves alone: the state of the others.
dj_others == <<sem_vars, pp_vars, ns_vars, returned, yf_vars, oy_vars, main_vars>>

sem_others == <<dj_vars, pp_vars, ns_vars, returned, yf_vars, oy_vars, main_vars>>

pp_others == <<dj_vars, sem_vars, ns_vars, returned, yf_vars, oy_vars, main_vars>>

ns_others == <<dj_vars, sem_vars, pp_vars, returned, yf_vars, oy_vars, main_vars>>

yf_others == <<dj_vars, sem_vars, pp_vars, ns_vars, returned, oy_vars, main_vars>>

oy_others == <<dj_vars, sem_vars, pp_vars, ns_vars, returned, yf_vars, main_vars>>

main_others == <<dj_vars, sem_vars, pp_vars, ns_vars, returned, yf_vars, oy_vars>>

\* ------------------------------------------------------------------ bounds
MaxFiles == 3
MaxJobsPerFile == 2
NumJobNames == 2
MaxJobs == 2
NumSemaphores == 2
MaxSemaphoreList == 1
MaxRunEntries == 2
NumPaths == 2
MaxPhaseKeys == 2
MaxPhaseEntries == 2
NumNodeNames == 2
MaxNameList == 1
MaxNodesets == 2
MaxNodes == 1
MaxRefNodes == 2
MaxNodesetJobs == 2
MaxTreeNodes == 4
MaxDocs == 3
NumObjectNames == 2
MaxErrors == 2
MaxBadYaml == 1
MaxGoodFiles == 2
MaxDocsPerFile == 1
MaxSchemaErrors == 1

JobNames == 1..NumJobNames

SemaphoreNames == 1..NumSemaphores

Paths == 1..NumPaths

NodeNames == 1..NumNodeNames

\* ------------------------------------------------------------ generic data
EmptyDict == [k \in {} |-> 0]

SeqsUpTo(S, n) == UNION {[1..k -> S] : k \in 0..n}

Range(s) == {s[i] : i \in DOMAIN s}

FileOrders(n) == {p \in [1..n -> 1..n] : \A i, j \in 1..n : p[i] = p[j] => i = j}

Str(x) == [t |-> "str", v |-> x]

Dict(d) == [t |-> "dict", v |-> d]

List(l) == [t |-> "list", v |-> l]

\* A value that is neither a string, a dict nor a list (a number, a boolean).
Other == [t |-> "other", v |-> 0]

\* ========================================================= check_job_playbook_paths
\* for key in ["pre-run", "run", "post-run", "cleanup-run"]
PlaybookKeysRunFirst == <<"run", "pre-run", "post-run", "cleanup-run">>

PlaybookKeys == <<"pre-run", "run", "post-run", "cleanup-run">>

\* A `name` that is no string (`name:` left empty is None).
NotAString == 0

\* An entry of a phase: a path, an object with or without `name` (the name a
\* path or no string at all), anything else.
PathEntries ==
    {Str(q) : q \in Paths} \cup {Dict([name |-> q]) : q \in Paths}
        \cup {Dict([name |-> NotAString]), Dict(EmptyDict), Other}

\* A phase value: one entry, or a list of entries.
PhaseValues == PathEntries \cup {List(l) : l \in SeqsUpTo(PathEntries, MaxPhaseEntries)}

\* The job mappings: some of the four phase keys, each with a phase value.
PlaybookJobs ==
    UNION {[K -> PhaseValues] :
              K \in {K \in SUBSET Range(PlaybookKeys) : Cardinality(K) <= MaxPhaseKeys}}

\* pathlib.Path(path).exists()
PathExists(fs, path) == path \in fs

\* `if not isinstance(paths, list): paths = [paths]`
PhaseList(value) == IF value.t = "list" THEN value.v ELSE <<value>>

\* Mutant: the wrapped list is stored back into the job.
JobAfterPhaseStored(job, key) == [job EXCEPT ![key] = List(PhaseList(job[key]))]

\* The job after the phase `key` was looked at: `paths = [paths]` binds the
\* local name, the job is not assigned to.
JobAfterPhase(job, key) == job

\* pathlib.Path(path["name"]) raises TypeError: the name is no string.
EntryRaises(e) == e.t = "dict" /\ "name" \in DOMAIN e.v /\ e.v.name = NotAString

\* The loop over the entries of the phase `key` ends in that TypeError.
PhaseRaises(job, key) ==
    key \in DOMAIN job /\ \E i \in DOMAIN PhaseList(job[key]) : EntryRaises(PhaseList(job[key])[i])

\* Mutant: only the bare strings are tested, objects are passed over.
InvalidOfEntryStringsOnly(fs, e) ==
    IF e.t = "str" /\ ~PathExists(fs, e.v) THEN <<e.v>> ELSE <<>>

\* The two `if isinstance(...)` blocks for one entry: what is appended.
InvalidOfEntry(fs, e) ==
    (IF e.t = "str" /\ ~PathExists(fs, e.v) THEN <<e.v>> ELSE <<>>)
        \o (IF e.t = "dict" /\ "name" \in DOMAIN e.v /\ ~PathExists(fs, e.v.name)
            THEN <<e.v.name>> ELSE <<>>)

RECURSIVE InvalidFrom(_, _, _)
\* for path in paths
InvalidFrom(fs, entries, i) ==
    IF i > Len(entries) THEN <<>>
    ELSE InvalidOfEntry(fs, entries[i]) \o InvalidFrom(fs, entries, i + 1)

\* One iteration of the loop over the keys.
PathsBody(fs, acc, job, key) ==
    IF key \notin DOMAIN job THEN acc ELSE acc \o InvalidFrom(fs, PhaseList(job[key]), 1)

RECURSIVE PathsFold(_, _, _, _)
PathsFold(fs, acc, job, i) ==
    IF i > Len(PlaybookKeys) THEN acc
    ELSE PathsFold(fs, PathsBody(fs, acc, job, PlaybookKeys[i]), job, i + 1)

\* The function as a whole, on the filesystem fs.
check_job_playbook_paths(fs, job) == PathsFold(fs, <<>>, job, 1)

PathsInit ==
    /\ pp_job \in PlaybookJobs
    /\ pp_fs \in SUBSET Paths
    /\ pp_pc = "loop"
    /\ pp_idx = 1
    /\ invalid_paths = <<>>

\* `if paths is None: continue`
PathsSkipPhase ==
    /\ pp_pc = "loop"
    /\ pp_idx <= Len(PlaybookKeys)
    /\ PlaybookKeys[pp_idx] \notin DOMAIN pp_job
    /\ invalid_paths' = PathsBody(pp_fs, invalid_paths, pp_job, PlaybookKeys[pp_idx])
    /\ pp_idx' = pp_idx + 1
    /\ UNCHANGED <<pp_job, pp_fs, pp_pc, pp_others>>

\* A phase the job has: its entries are tested one after the other.
PathsCheckPhase ==
    /\ pp_pc = "loop"
    /\ pp_idx <= Len(PlaybookKeys)
    /\ PlaybookKeys[pp_idx] \in DOMAIN pp_job
    /\ ~PhaseRaises(pp_job, PlaybookKeys[pp_idx])
    /\ invalid_paths' = PathsBody(pp_fs, invalid_paths, pp_job, PlaybookKeys[pp_idx])
    /\ pp_job' = JobAfterPhase(pp_job, PlaybookKeys[pp_idx])
    /\ pp_idx' = pp_idx + 1
    /\ UNCHANGED <<pp_fs, pp_pc, pp_others>>

\* The TypeError of pathlib.Path leaves the function: nothing is returned.
PathsRaise ==
    /\ pp_pc = "loop"
    /\ pp_idx <= Len(PlaybookKeys)
    /\ PhaseRaises(pp_job, PlaybookKeys[pp_idx])
    /\ pp_pc' = "raised"
    /\ UNCHANGED <<pp_job, pp_fs, pp_idx, invalid_paths, pp_others>>

\* return invalid_paths
PathsReturn ==
    /\ pp_pc = "loop"
    /\ pp_idx > Len(PlaybookKeys)
    /\ pp_pc' = "done"
    /\ UNCHANGED <<pp_job, pp_fs, pp_idx, invalid_paths, pp_others>>

\* No call of check_job_playbook_paths under way.
PathsIdle ==
    /\ pp_job = EmptyDict
    /\ pp_fs = {}
    /\ pp_pc = "idle"
    /\ pp_idx = 0
    /\ invalid_paths = <<>>

PathsNext == PathsSkipPhase \/ PathsCheckPhase \/ PathsRaise \/ PathsReturn

\* ============================================================ check_duplicated_jobs
\* A job document as get_zuul_object_from_yaml yields it: {"job": {...}},
\* the attribute mapping with or without a "name".
NamedJobDocs == {[job |-> [name |-> n]] : n \in JobNames}

NamelessJobDoc == [job |-> EmptyDict]

DupJobDocs == NamedJobDocs \cup {NamelessJobDoc}

\* The input mapping in its iteration order: one job list per file.
DupJobsInputs == SeqsUpTo(SeqsUpTo(DupJobDocs, MaxJobsPerFile), MaxFiles)

\* job["job"]["name"] raises KeyError for some job of the list.
RaisesKeyError(joblist) == \E k \in DOMAIN joblist : "name" \notin DOMAIN joblist[k].job

\* set(job["job"]["name"] for job in joblist)
SublistSet(joblist) == {joblist[k].job.name : k \in DOMAIN joblist}

DupJobsLocals == [seen_items |-> {}, duplicated_items |-> {}, unique_items |-> {}]

\* Mutant: seen_items is overwritten by the names of the current file.
DupJobsBodySeenAssigned(st, joblist) ==
    IF RaisesKeyError(joblist)
    THEN st
    ELSE [seen_items |-> SublistSet(joblist),
          duplicated_items |-> st.duplicated_items \cup (SublistSet(joblist) \cap st.seen_items),
          unique_items |-> st.unique_items \cup SublistSet(joblist)]

\* Mutant: the names of a file are walked as a list, not as a set.
DupJobsBodyNoSet(st, joblist) ==
    IF RaisesKeyError(joblist)
    THEN st
    ELSE [seen_items |-> st.seen_items \cup SublistSet(joblist),
          duplicated_items |-> st.duplicated_items
              \cup (SublistSet(joblist) \cap st.seen_items)
              \cup {joblist[k].job.name : k \in {k \in DOMAIN joblist :
                        \E h \in 1..(k - 1) : joblist[h].job.name = joblist[k].job.name}},
          unique_items |-> st.unique_items \cup SublistSet(joblist)]

\* One iteration of `for joblist in jobs.values()`.
DupJobsBody(st, joblist) ==
    IF RaisesKeyError(joblist)
    THEN st
    ELSE [seen_items |-> st.seen_items \cup SublistSet(joblist),
          duplicated_items |-> st.duplicated_items \cup (SublistSet(joblist) \cap st.seen_items),
          unique_items |-> st.unique_items \cup SublistSet(joblist)]

RECURSIVE DupJobsFold(_, _, _)
DupJobsFold(st, files, i) ==
    IF i > Len(files) THEN st ELSE DupJobsFold(DupJobsBody(st, files[i]), files, i + 1)

\* The function as a whole, on a mapping given in iteration order.
check_duplicated_jobs(files) == DupJobsFold(DupJobsLocals, files, 1).duplicated_items

DupJobsInit ==
    /\ jobs \in DupJobsInputs
    /\ dj_pc = "loop"
    /\ dj_idx = 1
    /\ seen_items = DupJobsLocals.seen_items
    /\ duplicated_items = DupJobsLocals.duplicated_items
    /\ unique_items = DupJobsLocals.unique_items
    /\ dj_result = {}

DupJobsApply(joblist) ==
    LET st == DupJobsBody([seen_items |-> seen_items,
                           duplicated_items |-> duplicated_items,
                           unique_items |-> unique_items], joblist)
    IN /\ seen_items' = st.seen_items
       /\ duplicated_items' = st.duplicated_items
       /\ unique_items' = st.unique_items
       /\ dj_idx' = dj_idx + 1
       /\ UNCHANGED <<jobs, dj_pc, dj_result, dj_others>>

\* A file all of whose jobs have a name.
DupJobsScanFile ==
    /\ dj_pc = "loop"
    /\ dj_idx <= Len(jobs)
    /\ ~RaisesKeyError(jobs[dj_idx])
    /\ DupJobsApply(jobs[dj_idx])

\* except KeyError: continue
DupJobsSkipFile ==
    /\ dj_pc = "loop"
    /\ dj_idx <= Len(jobs)
    /\ RaisesKeyError(jobs[dj_idx])
    /\ DupJobsApply(jobs[dj_idx])

\* return duplicated_items
DupJobsReturn ==
    /\ dj_pc = "loop"
    /\ dj_idx > Len(jobs)
    /\ dj_pc' = "done"
    /\ dj_result' = duplicated_items
    /\ UNCHANGED <<jobs, dj_idx, seen_items, duplicated_items, unique_items, dj_others>>

\* No call of check_duplicated_jobs under way.
DupJobsIdle ==
    /\ jobs = <<>>
    /\ dj_pc = "idle"
    /\ dj_idx = 0
    /\ seen_items = {}
    /\ duplicated_items = {}
    /\ unique_items = {}
    /\ dj_result = {}

DupJobsNext == DupJobsScanFile \/ DupJobsSkipFile \/ DupJobsReturn

\* ============================================================ check_duplicate_semaphore
\* A `semaphores` value: one name, or a list of names.
SemaphoreValues ==
    {Str(s) : s \in SemaphoreNames} \cup {List(l) : l \in SeqsUpTo(SemaphoreNames, MaxSemaphoreList)}

\* A dict with the key `semaphores` or without it.
SemaphoreParts == {EmptyDict} \cup {[semaphores |-> v] : v \in SemaphoreValues}

\* The one playbook path the semaphore jobs use.
PlaybookPath == Str(1)

\* An entry of a `run` list: a bare path or an object.
RunEntries == {PlaybookPath} \cup {Dict(d) : d \in SemaphoreParts}

\* A `run` value: a bare path, one object, or a list of entries.
RunValues == RunEntries \cup {List(l) : l \in SeqsUpTo(RunEntries, MaxRunEntries)}

RunParts == {EmptyDict} \cup {[run |-> r] : r \in RunValues}

NameParts == {EmptyDict} \cup {[name |-> n] : n \in JobNames}

\* The job documents of the list, and a document of another kind.
SemJobDocs ==
    {[job |-> a @@ b @@ c] : a \in NameParts, b \in SemaphoreParts, c \in RunParts}
        \cup {EmptyDict}

\* `job is None or "job" not in job`, or job["job"].get("name") is None
HasJobName(doc) == "job" \in DOMAIN doc /\ "name" \in DOMAIN doc.job

\* The list that append (a string) or extend (a list) adds.
AddedSemaphores(value) == IF value.t = "str" THEN <<value.v>> ELSE value.v

\* d.get("semaphores", []) followed by the append or extend.
SemaphoresOf(d) ==
    IF "semaphores" \in DOMAIN d THEN AddedSemaphores(d.semaphores) ELSE <<>>

\* Mutant: a single dict is not wrapped, the loop walks its keys (strings).
RunEntriesOfNoWrap(attrs) ==
    IF "run" \notin DOMAIN attrs THEN <<>>
    ELSE IF attrs.run.t = "dict" THEN [i \in 1..Cardinality(DOMAIN attrs.run.v) |-> Str(i)]
    ELSE attrs.run.v

\* run_entries: job["job"].get("run", []), a single dict wrapped into a list.
RunEntriesOf(attrs) ==
    IF "run" \notin DOMAIN attrs THEN <<>>
    ELSE IF attrs.run.t = "dict" THEN <<attrs.run>>
    ELSE attrs.run.v

RECURSIVE RunSemaphoresFromBreak(_, _)
\* Mutant: a bare path in the list ends the loop (break for continue).
RunSemaphoresFromBreak(entries, i) ==
    IF i > Len(entries) \/ entries[i].t = "str" THEN <<>>
    ELSE SemaphoresOf(entries[i].v) \o RunSemaphoresFromBreak(entries, i + 1)

RECURSIVE RunSemaphoresFrom(_, _)
\* for run in run_entries: strings skipped, objects' semaphores collected.
RunSemaphoresFrom(entries, i) ==
    IF i > Len(entries) THEN <<>>
    ELSE (IF entries[i].t = "str" THEN <<>> ELSE SemaphoresOf(entries[i].v))
             \o RunSemaphoresFrom(entries, i + 1)

\* The run semaphores one job document adds.
RunSemaphores(attrs) ==
    IF "run" \in DOMAIN attrs /\ attrs.run.t = "str"
    THEN <<>>
    ELSE RunSemaphoresFrom(RunEntriesOf(attrs), 1)

\* Mutant: the list under key is created anew for every document.
GetDefaultReset(d, key) == <<>>

\* dict.setdefault(key, []) then the list under key.
GetDefault(d, key) == IF key \in DOMAIN d THEN d[key] ELSE <<>>

\* d[key] = value
SetItem(d, key, value) == [k \in DOMAIN d \cup {key} |-> IF k = key THEN value ELSE d[k]]

\* Mutant: one key for every job.
JobKeyShared(attrs) == 1

\* The key the two dicts are filled under.
JobKey(attrs) == attrs.name

\* Mutant: the dictionaries are those the last call left.
SemLocalsKept ==
    [job_semaphore_list |-> job_semaphore_list, run_semaphore_list |-> run_semaphore_list]

SemLocals == [job_semaphore_list |-> EmptyDict, run_semaphore_list |-> EmptyDict]

\* The body of the loop for a job with a name: both dicts get the key, the
\* job-level semaphores and the run semaphores are added to its lists.
SemCollect(st, key, attrs) ==
    [job_semaphore_list |->
         SetItem(st.job_semaphore_list, key,
                 GetDefault(st.job_semaphore_list, key) \o SemaphoresOf(attrs)),
     run_semaphore_list |->
         SetItem(st.run_semaphore_list, key,
                 GetDefault(st.run_semaphore_list, key) \o RunSemaphores(attrs))]

\* Mutant: a job without a name is collected under the key None (0).
SemBodyKeepsNameless(st, doc) ==
    IF "job" \notin DOMAIN doc
    THEN st
    ELSE SemCollect(st, IF "name" \in DOMAIN doc.job THEN JobKey(doc.job) ELSE 0, doc.job)

\* One iteration of `for job in jobs`.
SemBody(st, doc) ==
    IF ~HasJobName(doc) THEN st ELSE SemCollect(st, JobKey(doc.job), doc.job)

\* Mutant: all job-level semaphores against all run semaphores.
FindDuplicateSemaphoresGlobal(st) ==
    UNION {Range(st.job_semaphore_list[k]) : k \in DOMAIN st.job_semaphore_list}
        \cap UNION {Range(st.run_semaphore_list[k]) : k \in DOMAIN st.run_semaphore_list}

\* The loop over _job_semaphore_list.keys(): union of the per-key intersections.
FindDuplicateSemaphores(st) ==
    UNION {Range(st.job_semaphore_list[k]) \cap Range(st.run_semaphore_list[k]) :
              k \in DOMAIN st.job_semaphore_list}

RECURSIVE SemFold(_, _, _)
SemFold(st, docs, i) ==
    IF i > Len(docs) THEN st ELSE SemFold(SemBody(st, docs[i]), docs, i + 1)

\* The function as a whole.
check_duplicate_semaphore(docs) == FindDuplicateSemaphores(SemFold(SemLocals, docs, 1))

SemInit ==
    /\ \E n \in 0..MaxJobs : sem_jobs \in [1..n -> SemJobDocs]
    /\ sem_pc = "collect"
    /\ sem_idx = 1
    /\ job_semaphore_list = SemLocals.job_semaphore_list
    /\ run_semaphore_list = SemLocals.run_semaphore_list
    /\ duplicate_semaphores = {}

SemApply(doc) ==
    LET st == SemBody([job_semaphore_list |-> job_semaphore_list,
                       run_semaphore_list |-> run_semaphore_list], doc)
    IN /\ job_semaphore_list' = st.job_semaphore_list
       /\ run_semaphore_list' = st.run_semaphore_list
       /\ sem_idx' = sem_idx + 1
       /\ UNCHANGED <<sem_jobs, sem_pc, duplicate_semaphores, sem_others>>

\* A document without a job name: continue.
SemSkipJob ==
    /\ sem_pc = "collect"
    /\ sem_idx <= Len(sem_jobs)
    /\ ~HasJobName(sem_jobs[sem_idx])
    /\ SemApply(sem_jobs[sem_idx])

\* A named job: its job-level and run semaphores are collected.
SemCollectJob ==
    /\ sem_pc = "collect"
    /\ sem_idx <= Len(sem_jobs)
    /\ HasJobName(sem_jobs[sem_idx])
    /\ SemApply(sem_jobs[sem_idx])

\* The second loop and the return.
SemFindDuplicates ==
    /\ sem_pc = "collect"
    /\ sem_idx > Len(sem_jobs)
    /\ sem_pc' = "done"
    /\ duplicate_semaphores' =
           FindDuplicateSemaphores([job_semaphore_list |-> job_semaphore_list,
                                    run_semaphore_list |-> run_semaphore_list])
    /\ UNCHANGED <<sem_jobs, sem_idx, job_semaphore_list, run_semaphore_list, sem_others>>

\* No call of check_duplicate_semaphore under way.
SemIdle ==
    /\ sem_jobs = <<>>
    /\ sem_pc = "idle"
    /\ sem_idx = 0
    /\ job_semaphore_list = EmptyDict
    /\ run_semaphore_list = EmptyDict
    /\ duplicate_semaphores = {}

SemNext == SemSkipJob \/ SemCollectJob \/ SemFindDuplicates

\* ======================================================== check_inexistent_nodesets
\* The `name` of a node: one name, or a list of names.
NameValues ==
    {Str(n) : n \in NodeNames} \cup {List(l) : l \in SeqsUpTo(NodeNames, MaxNameList)}

\* A declared nodeset document: a name, and a `nodes` list or none.  (A
\* declaration or a declared node without `name` is not in the family.)
DeclaredNodesets ==
    {[nodeset |-> [name |-> n]] : n \in NodeNames}
        \cup {[nodeset |-> [name |-> n, nodes |-> l]] :
                 n \in NodeNames, l \in SeqsUpTo({[name |-> v] : v \in NameValues}, MaxNodes)}

\* An element of the `nodes` list of a job's inline nodeset: an object with
\* a name or without one, or a bare string.
RefNodes ==
    {Dict([name |-> v]) : v \in NameValues}
        \cup {Dict(EmptyDict)} \cup {Str(n) : n \in NodeNames}

\* The `nodeset` of a job: a name, or an inline object whose `nodes` is
\* missing, a list of elements, or a single object.
JobNodesetValues ==
    {Str(n) : n \in NodeNames}
        \cup {Dict(EmptyDict)}
        \cup {Dict([nodes |-> List(l)]) : l \in SeqsUpTo(RefNodes, MaxRefNodes)}
        \cup {Dict([nodes |-> Dict([name |-> v])]) : v \in NameValues}
        \cup {Dict([nodes |-> Dict(EmptyDict)])}

NodesetJobDocs == {[job |-> EmptyDict]} \cup {[job |-> [nodeset |-> v]] : v \in JobNodesetValues}

\* Mutant: a list-valued node name is passed over.
KnownOfNodeNoFlatten(node) == IF node.name.t = "str" THEN {node.name.v} ELSE {}

\* The names one declared node adds: its name, or every element of it.
KnownOfNode(node) == IF node.name.t = "str" THEN {node.name.v} ELSE Range(node.name.v)

\* One iteration of `for nodeset in nodesets`.
NodesetsBody(known, ns) ==
    known \cup {ns.nodeset.name}
          \cup (IF "nodes" \in DOMAIN ns.nodeset
                THEN UNION {KnownOfNode(ns.nodeset.nodes[i]) : i \in DOMAIN ns.nodeset.nodes}
                ELSE {})

\* The try block ends in KeyError: no `job`, no `nodeset`, or no `nodes` in
\* the inline object.
SkipsJob(doc) ==
    IF "job" \notin DOMAIN doc THEN TRUE
    ELSE IF "nodeset" \notin DOMAIN doc.job THEN TRUE
    ELSE doc.job.nodeset.t = "dict" /\ "nodes" \notin DOMAIN doc.job.nodeset.v

\* job_nodesets: the string wrapped into an object in a list, or the `nodes`.
JobNodesetsOf(doc) ==
    IF doc.job.nodeset.t = "str"
    THEN List(<<Dict([name |-> doc.job.nodeset])>>)
    ELSE doc.job.nodeset.v.nodes

\* One element of a job_nodesets list leaves the function by an exception:
\* KeyError without `name`; TypeError for a string element or an unhashable
\* list name, whose handler calls .get on the list (AttributeError).
ElementRaises(e) ==
    IF e.t # "dict" THEN TRUE
    ELSE IF "name" \notin DOMAIN e.v THEN TRUE
    ELSE e.v.name.t = "list"

\* job_nodesets is a single object: the loop walks its keys, every key ends
\* in the handler, which tests job_nodesets.get("name") (a non-empty list
\* is unhashable: TypeError).
SingleRaises(d) == "name" \in DOMAIN d /\ d.name.t = "list" /\ Len(d.name.v) > 0

\* The loop over job_nodesets ends in an exception.
RefsRaise(refs) ==
    IF refs.t = "list" THEN \E i \in DOMAIN refs.v : ElementRaises(refs.v[i])
    ELSE SingleRaises(refs.v)

\* The names the loop over job_nodesets tests against nodeset_list.
TestedNames(refs) ==
    IF refs.t = "list" THEN {refs.v[i].v.name.v : i \in DOMAIN refs.v}
    ELSE IF "name" \in DOMAIN refs.v /\ refs.v.name.t = "str" THEN {refs.v.name.v}
    ELSE {}

\* Mutant: a name is added when it is known.
JobsBodyInverted(known, acc, doc) ==
    IF SkipsJob(doc) THEN acc ELSE acc \cup (TestedNames(JobNodesetsOf(doc)) \cap known)

\* One iteration of `for job in jobs` that ends normally.
JobsBody(known, acc, doc) ==
    IF SkipsJob(doc) THEN acc ELSE acc \cup (TestedNames(JobNodesetsOf(doc)) \ known)

JobRaises(doc) == ~SkipsJob(doc) /\ RefsRaise(JobNodesetsOf(doc))

RECURSIVE KnownFold(_, _, _)
KnownFold(known, nodesets, i) ==
    IF i > Len(nodesets) THEN known
    ELSE KnownFold(NodesetsBody(known, nodesets[i]), nodesets, i + 1)

RECURSIVE JobsFold(_, _, _, _)
JobsFold(known, acc, docs, i) ==
    IF i > Len(docs) THEN acc ELSE JobsFold(known, JobsBody(known, acc, docs[i]), docs, i + 1)

\* The function as a whole, for a call that returns.
check_inexistent_nodesets(nodesets, docs) == JobsFold(KnownFold({}, nodesets, 1), {}, docs, 1)

NsInit ==
    /\ \E n \in 0..MaxNodesets : ns_nodesets \in [1..n -> DeclaredNodesets]
    /\ \E n \in 0..MaxNodesetJobs : ns_jobs \in [1..n -> NodesetJobDocs]
    /\ ns_pc = "nodesets"
    /\ ns_idx = 1
    /\ nodeset_list = {}
    /\ inexistent_nodesets = {}

\* A declared nodeset: its name and the names of its nodes become known.
NsAddDeclared ==
    /\ ns_pc = "nodesets"
    /\ ns_idx <= Len(ns_nodesets)
    /\ nodeset_list' = NodesetsBody(nodeset_list, ns_nodesets[ns_idx])
    /\ ns_idx' = ns_idx + 1
    /\ UNCHANGED <<ns_nodesets, ns_jobs, ns_pc, inexistent_nodesets, ns_others>>

\* inexistent_nodesets = set(), the second loop starts.
NsStartJobs ==
    /\ ns_pc = "nodesets"
    /\ ns_idx > Len(ns_nodesets)
    /\ ns_pc' = "jobs"
    /\ ns_idx' = 1
    /\ inexistent_nodesets' = {}
    /\ UNCHANGED <<ns_nodesets, ns_jobs, nodeset_list, ns_others>>

\* except KeyError: continue
NsSkipJob ==
    /\ ns_pc = "jobs"
    /\ ns_idx <= Len(ns_jobs)
    /\ SkipsJob(ns_jobs[ns_idx])
    /\ inexistent_nodesets' = JobsBody(nodeset_list, inexistent_nodesets, ns_jobs[ns_idx])
    /\ ns_idx' = ns_idx + 1
    /\ UNCHANGED <<ns_nodesets, ns_jobs, ns_pc, nodeset_list, ns_others>>

\* The references of a job are tested against the known names.
NsCheckJob ==
    /\ ns_pc = "jobs"
    /\ ns_idx <= Len(ns_jobs)
    /\ ~SkipsJob(ns_jobs[ns_idx])
    /\ ~JobRaises(ns_jobs[ns_idx])
    /\ inexistent_nodesets' = JobsBody(nodeset_list, inexistent_nodesets, ns_jobs[ns_idx])
    /\ ns_idx' = ns_idx + 1
    /\ UNCHANGED <<ns_nodesets, ns_jobs, ns_pc, nodeset_list, ns_others>>

\* An exception leaves the function: nothing is returned.
NsRaise ==
    /\ ns_pc = "jobs"
    /\ ns_idx <= Len(ns_jobs)
    /\ JobRaises(ns_jobs[ns_idx])
    /\ ns_pc' = "raised"
    /\ UNCHANGED <<ns_nodesets, ns_jobs, ns_idx, nodeset_list, inexistent_nodesets, ns_others>>

\* return inexistent_nodesets
NsReturn ==
    /\ ns_pc = "jobs"
    /\ ns_idx > Len(ns_jobs)
    /\ ns_pc' = "done"
    /\ UNCHANGED <<ns_nodesets, ns_jobs, ns_idx, nodeset_list, inexistent_nodesets, ns_others>>

\* No call of check_inexistent_nodesets under way.
NsIdle ==
    /\ ns_nodesets = <<>>
    /\ ns_jobs = <<>>
    /\ ns_pc = "idle"
    /\ ns_idx = 0
    /\ nodeset_list = {}
    /\ inexistent_nodesets = {}

NsNext == NsAddDeclared \/ NsStartJobs \/ NsSkipJob \/ NsCheckJob \/ NsRaise \/ NsReturn

\* =============================================================== get_zuul_yaml_files
\* What a path is: a regular file (told by its suffix), a directory, or
\* something that is neither (is_file() and is_dir() both false).
FileSuffixes == {".yaml", ".yml", ".txt"}

NodeKinds == FileSuffixes \cup {"dir", "neither"}

\* A path that does not exist.
NoSuchPath == 0

\* The file trees: node 1 is the top, every other node lies in a directory.
FileTrees ==
    UNION {{t \in [1..k -> [kind : NodeKinds, parent : 0..(k - 1)]] :
              /\ t[1].parent = 0
              /\ \A n \in 2..k :
                    /\ t[n].parent \in 1..(n - 1)
                    /\ t[t[n].parent].kind = "dir"} : k \in 1..MaxTreeNodes}

\* path.is_file()
is_file(tree, path) == IF path = NoSuchPath THEN FALSE ELSE tree[path].kind \in FileSuffixes

\* path.is_dir()
is_dir(tree, path) == IF path = NoSuchPath THEN FALSE ELSE tree[path].kind = "dir"

\* path.iterdir(), as a set: the order is the operating system's.
iterdir(tree, path) == {c \in DOMAIN tree : tree[c].parent = path}

\* Mutant: both extensions go to good_yaml.
BucketOfSuffixBothGood(suffix) ==
    IF suffix = ".yaml" THEN {"good_yaml"}
    ELSE IF suffix = ".yml" THEN {"good_yaml"}
    ELSE {}

\* The key a file is appended to, told by path.suffix; none for the rest.
BucketOfSuffix(suffix) ==
    IF suffix = ".yaml" THEN {"good_yaml"}
    ELSE IF suffix = ".yml" THEN {"bad_yaml"}
    ELSE {}

\* zuul_yaml_files[...].append(path) on a defaultdict(list)
AppendFile(files, tree, path) ==
    [k \in DOMAIN files \cup BucketOfSuffix(tree[path].kind) |->
        GetDefault(files, k) \o (IF k \in BucketOfSuffix(tree[path].kind) THEN <<path>> ELSE <<>>)]

\* zuul_yaml_files[file_type].extend(yaml_file_path) for the items of found
ExtendFiles(files, found) ==
    [k \in DOMAIN files \cup DOMAIN found |-> GetDefault(files, k) \o GetDefault(found, k)]

\* A call of get_zuul_yaml_files(path) that has just been entered.
YamlFilesFrame(tree, path) ==
    [path |-> path,
     todo |-> IF is_dir(tree, path) THEN iterdir(tree, path) ELSE {},
     files |-> EmptyDict,
     returning |-> FALSE]

YamlFilesTop == yf_stack[Len(yf_stack)]

\* The stack with its innermost frame replaced.
WithTop(stack, frame) == [stack EXCEPT ![Len(stack)] = frame]

YamlFilesInit ==
    /\ yf_tree \in FileTrees
    /\ yf_path \in DOMAIN yf_tree \cup {NoSuchPath}
    /\ yf_stack = <<YamlFilesFrame(yf_tree, yf_path)>>
    /\ yf_pc = "run"
    /\ zuul_yaml_files = EmptyDict

\* if path.is_file(): the file is appended under the key of its suffix.
YamlFilesFile ==
    /\ yf_pc = "run"
    /\ ~YamlFilesTop.returning
    /\ is_file(yf_tree, YamlFilesTop.path)
    /\ yf_stack' = WithTop(yf_stack,
           [YamlFilesTop EXCEPT !.files = AppendFile(@, yf_tree, YamlFilesTop.path),
                                !.returning = TRUE])
    /\ UNCHANGED <<yf_tree, yf_path, yf_pc, zuul_yaml_files, yf_others>>

\* else: print("Skipping ...")
YamlFilesSkip ==
    /\ yf_pc = "run"
    /\ ~YamlFilesTop.returning
    /\ ~is_file(yf_tree, YamlFilesTop.path)
    /\ ~is_dir(yf_tree, YamlFilesTop.path)
    /\ yf_stack' = WithTop(yf_stack, [YamlFilesTop EXCEPT !.returning = TRUE])
    /\ UNCHANGED <<yf_tree, yf_path, yf_pc, zuul_yaml_files, yf_others>>

\* for p in path.iterdir(): get_zuul_yaml_files(p) is entered.
YamlFilesDescend ==
    /\ yf_pc = "run"
    /\ ~YamlFilesTop.returning
    /\ is_dir(yf_tree, YamlFilesTop.path)
    /\ \E p \in YamlFilesTop.todo :
          yf_stack' = Append(WithTop(yf_stack, [YamlFilesTop EXCEPT !.todo = @ \ {p}]),
                             YamlFilesFrame(yf_tree, p))
    /\ UNCHANGED <<yf_tree, yf_path, yf_pc, zuul_yaml_files, yf_others>>

\* The loop over iterdir() is over.
YamlFilesLoopEnds ==
    /\ yf_pc = "run"
    /\ ~YamlFilesTop.returning
    /\ is_dir(yf_tree, YamlFilesTop.path)
    /\ YamlFilesTop.todo = {}
    /\ yf_stack' = WithTop(yf_stack, [YamlFilesTop EXCEPT !.returning = TRUE])
    /\ UNCHANGED <<yf_tree, yf_path, yf_pc, zuul_yaml_files, yf_others>>

\* return zuul_yaml_files, to the call one level up: its lists are extended.
YamlFilesReturnUp ==
    /\ yf_pc = "run"
    /\ YamlFilesTop.returning
    /\ Len(yf_stack) > 1
    /\ LET up == SubSeq(yf_stack, 1, Len(yf_stack) - 1)
       IN  yf_stack' = WithTop(up, [up[Len(up)] EXCEPT
                                      !.files = ExtendFiles(@, YamlFilesTop.files)])
    /\ UNCHANGED <<yf_tree, yf_path, yf_pc, zuul_yaml_files, yf_others>>

\* return zuul_yaml_files, to the caller.
YamlFilesReturn ==
    /\ yf_pc = "run"
    /\ YamlFilesTop.returning
    /\ Len(yf_stack) = 1
    /\ zuul_yaml_files' = YamlFilesTop.files
    /\ yf_stack' = <<>>
    /\ yf_pc' = "done"
    /\ UNCHANGED <<yf_tree, yf_path, yf_others>>

\* No call of get_zuul_yaml_files under way.
YamlFilesIdle ==
    /\ yf_tree = <<>>
    /\ yf_path = NoSuchPath
    /\ yf_stack = <<>>
    /\ yf_pc = "idle"
    /\ zuul_yaml_files = EmptyDict

YamlFilesNext ==
    \/ YamlFilesFile \/ YamlFilesSkip \/ YamlFilesDescend \/ YamlFilesLoopEnds
    \/ YamlFilesReturnUp \/ YamlFilesReturn

\* ========================================================= get_zuul_object_from_yaml
\* The object types asked for (three of the values of ZuulObject).
ObjectTypes == {"job", "nodeset", "pipeline"}

\* The value under a discriminator key: a mapping with a name, the empty
\* mapping, or nothing (`- job:`).
ObjectBodies == {Dict([name |-> n]) : n \in 1..NumObjectNames} \cup {Dict(EmptyDict), Other}

\* An element of the top-level list: a document of one kind or of two, a
\* string, or nothing.
TopElements ==
    {Dict([job |-> b]) : b \in ObjectBodies}
        \cup {Dict([nodeset |-> b]) : b \in ObjectBodies}
        \cup {Dict([job |-> Dict([name |-> 1]), nodeset |-> Dict([name |-> 1])])}
        \cup {Str(1), Other}

\* What yaml.safe_load gives: a list of elements, one mapping, or None for
\* an empty file.
LoadedValues ==
    {List(l) : l \in SeqsUpTo(TopElements, MaxDocs)}
        \cup {Dict([job |-> Dict([name |-> 1])]), Other}

\* The file: missing, no valid YAML, or YAML with its loaded value.
YamlFiles ==
    {[state |-> "missing"], [state |-> "invalid"]}
        \cup {[state |-> "yaml", data |-> v] : v \in LoadedValues}

\* `for obj in yaml.safe_load(f)`: None cannot be iterated (TypeError).
Iterable(v) == v.t \in {"list", "dict"}

\* The objects the iteration yields: the elements of a list, the keys of a
\* mapping (strings).
IterOf(v) == IF v.t = "list" THEN v.v ELSE <<Str(1)>>

\* bool(value): a mapping that is not empty.
Truthy(v) == IF v.t = "dict" THEN DOMAIN v.v # {} ELSE FALSE

\* obj.get raises AttributeError: obj is no mapping.
GetRaises(obj) == obj.t # "dict"

\* Mutant: a mapping is kept whatever its key.
KeepsAnyKind(obj, type) == \E k \in DOMAIN obj.v : Truthy(obj.v[k])

\* `if obj.get(obj_type.value)` for a mapping.
Keeps(obj, type) == IF type \in DOMAIN obj.v THEN Truthy(obj.v[type]) ELSE FALSE

\* Mutant: AttributeError is not handled.
OnAttributeErrorUncaught == "raised"

\* except AttributeError: ... sys.exit(1)
OnAttributeError == "exited"

ObjectsInit ==
    /\ oy_file \in YamlFiles
    /\ oy_type \in ObjectTypes
    /\ oy_pc = "open"
    /\ oy_idx = 0
    /\ oy_objs = <<>>
    /\ oy_status = 0

\* except FileNotFoundError: ... sys.exit(1)
ObjectsFileNotFound ==
    /\ oy_pc = "open"
    /\ oy_file.state = "missing"
    /\ oy_pc' = "exited"
    /\ oy_status' = 1
    /\ UNCHANGED <<oy_file, oy_type, oy_idx, oy_objs, oy_others>>

\* except yaml.YAMLError: ... sys.exit(1)
ObjectsInvalidYaml ==
    /\ oy_pc = "open"
    /\ oy_file.state = "invalid"
    /\ oy_pc' = "exited"
    /\ oy_status' = 1
    /\ UNCHANGED <<oy_file, oy_type, oy_idx, oy_objs, oy_others>>

\* yaml.safe_load(f) gives a value the comprehension can iterate.
ObjectsLoad ==
    /\ oy_pc = "open"
    /\ oy_file.state = "yaml"
    /\ Iterable(oy_file.data)
    /\ oy_pc' = "filter"
    /\ oy_idx' = 1
    /\ UNCHANGED <<oy_file, oy_type, oy_objs, oy_status, oy_others>>

\* yaml.safe_load(f) gives None: TypeError, which no handler catches.
ObjectsNotIterable ==
    /\ oy_pc = "open"
    /\ oy_file.state = "yaml"
    /\ ~Iterable(oy_file.data)
    /\ oy_pc' = "raised"
    /\ UNCHANGED <<oy_file, oy_type, oy_idx, oy_objs, oy_status, oy_others>>

\* A mapping with a value under the key asked for: it is kept.
ObjectsKeep ==
    /\ oy_pc = "filter"
    /\ oy_idx <= Len(IterOf(oy_file.data))
    /\ ~GetRaises(IterOf(oy_file.data)[oy_idx])
    /\ Keeps(IterOf(oy_file.data)[oy_idx], oy_type)
    /\ oy_objs' = Append(oy_objs, IterOf(oy_file.data)[oy_idx])
    /\ oy_idx' = oy_idx + 1
    /\ UNCHANGED <<oy_file, oy_type, oy_pc, oy_status, oy_others>>

\* A mapping without the key, or with nothing under it: it is passed over.
ObjectsDrop ==
    /\ oy_pc = "filter"
    /\ oy_idx <= Len(IterOf(oy_file.data))
    /\ ~GetRaises(IterOf(oy_file.data)[oy_idx])
    /\ ~Keeps(IterOf(oy_file.data)[oy_idx], oy_type)
    /\ oy_idx' = oy_idx + 1
    /\ UNCHANGED <<oy_file, oy_type, oy_pc, oy_objs, oy_status, oy_others>>

\* An object without .get: AttributeError.
ObjectsAttributeError ==
    /\ oy_pc = "filter"
    /\ oy_idx <= Len(IterOf(oy_file.data))
    /\ GetRaises(IterOf(oy_file.data)[oy_idx])
    /\ oy_pc' = OnAttributeError
    /\ oy_status' = IF OnAttributeError = "exited" THEN 1 ELSE oy_status
    /\ UNCHANGED <<oy_file, oy_type, oy_idx, oy_objs, oy_others>>

\* return [...]
ObjectsReturn ==
    /\ oy_pc = "filter"
    /\ oy_idx > Len(IterOf(oy_file.data))
    /\ oy_pc' = "done"
    /\ UNCHANGED <<oy_file, oy_type, oy_idx, oy_objs, oy_status, oy_others>>

\* No call of get_zuul_object_from_yaml under way.
ObjectsIdle ==
    /\ oy_file = [state |-> "missing"]
    /\ oy_type = "job"
    /\ oy_pc = "idle"
    /\ oy_idx = 0
    /\ oy_objs = <<>>
    /\ oy_status = 0

ObjectsNext ==
    \/ ObjectsFileNotFound \/ ObjectsInvalidYaml \/ ObjectsLoad \/ ObjectsNotIterable
    \/ ObjectsKeep \/ ObjectsDrop \/ ObjectsAttributeError \/ ObjectsReturn

\* Neither function of utils.py is being called.
UtilsIdle == YamlFilesIdle /\ ObjectsIdle

\* ===================================================================== print_results
\* A number or a status that has not been printed or set.
NotSet == -1

\* The list of .yml files found.
BadYamlLists == {[i \in 1..n |-> i] : n \in 0..MaxBadYaml}

\* The flags of the command line.
ArgsValues ==
    [check_playbook_paths : BOOLEAN, warnings_as_errors : BOOLEAN, ignore_warnings : BOOLEAN]

\* The results dictionaries print_results may be given.
ResultsValues ==
    [errors : [duplicated_semaphores : 0..MaxErrors, playbook_paths : 0..MaxErrors,
               yaml : 0..MaxErrors],
     warnings : [duplicated_jobs : SUBSET JobNames, inexistent_nodesets : SUBSET NodeNames,
                 bad_yaml_files : BadYamlLists]]

\* Nothing printed yet.
NoReport ==
    [warnings_printed |-> FALSE, total_warnings |-> NotSet, verdict |-> "none",
     total_errors |-> NotSet, playbook_path_errors |-> NotSet]

\* total_warnings = len(bad_yaml_files) + len(duplicated_jobs) + len(inexistent_nodesets)
TotalWarnings(r) ==
    Len(r.warnings.bad_yaml_files) + Cardinality(r.warnings.duplicated_jobs)
        + Cardinality(r.warnings.inexistent_nodesets)

\* Mutant: the warnings are added whatever the flag.
TotalErrsWithWarnings(r, a) ==
    r.errors.yaml + r.errors.playbook_paths + r.errors.duplicated_semaphores + TotalWarnings(r)

\* total_errs, after `if warnings_as_errors: total_errs += total_warnings`
TotalErrs(r, a) ==
    r.errors.yaml + r.errors.playbook_paths + r.errors.duplicated_semaphores
        + (IF a.warnings_as_errors THEN TotalWarnings(r) ELSE 0)

\* print_warnings: whether anything is printed, and the number printed as
\* "Total warnings" (printed for the severity WARNING only).
print_warnings(r, severity) ==
    LET n_bad_yaml == Len(r.warnings.bad_yaml_files)
        n_duplicate_jobs == Cardinality(r.warnings.duplicated_jobs)
        n_nodeset == Cardinality(r.warnings.inexistent_nodesets)
    IN  IF n_bad_yaml = 0 /\ n_duplicate_jobs = 0 /\ n_nodeset = 0
        THEN [printed |-> FALSE, total |-> NotSet]
        ELSE [printed |-> TRUE,
              total |-> IF severity = "warning" THEN n_duplicate_jobs + n_nodeset ELSE NotSet]

PrintResultsInit ==
    /\ good_yaml = <<>>
    /\ bad_yaml = <<>>
    /\ main_fs = {}
    /\ args \in ArgsValues
    /\ results \in ResultsValues
    /\ main_pc = "print_results"
    /\ report = NoReport
    /\ exit_status = NotSet

\* if warnings_as_errors: print_warnings(warnings=results, severity=MsgSeverity.ERROR)
PrintResultsAsErrors ==
    /\ main_pc = "print_results"
    /\ args.warnings_as_errors
    /\ report' = [report EXCEPT !.warnings_printed = print_warnings(results, "error").printed,
                                !.total_warnings = print_warnings(results, "error").total]
    /\ main_pc' = "verdict"
    /\ UNCHANGED <<good_yaml, bad_yaml, main_fs, args, results, exit_status, main_others>>

\* elif not ignore_warnings: print_warnings(warnings=results)
PrintResultsWarnings ==
    /\ main_pc = "print_results"
    /\ ~args.warnings_as_errors
    /\ ~args.ignore_warnings
    /\ report' = [report EXCEPT !.warnings_printed = print_warnings(results, "warning").printed,
                                !.total_warnings = print_warnings(results, "warning").total]
    /\ main_pc' = "verdict"
    /\ UNCHANGED <<good_yaml, bad_yaml, main_fs, args, results, exit_status, main_others>>

\* The warnings are ignored: print_warnings is not called.
PrintResultsIgnore ==
    /\ main_pc = "print_results"
    /\ ~args.warnings_as_errors
    /\ args.ignore_warnings
    /\ main_pc' = "verdict"
    /\ UNCHANGED <<good_yaml, bad_yaml, main_fs, args, results, report, exit_status, main_others>>

\* if total_errs == 0: "Passed", sys.exit(0)
PrintResultsPassed ==
    /\ main_pc = "verdict"
    /\ TotalErrs(results, args) = 0
    /\ report' = [report EXCEPT !.verdict = "Passed"]
    /\ exit_status' = 0
    /\ main_pc' = "exited"
    /\ UNCHANGED <<good_yaml, bad_yaml, main_fs, args, results, main_others>>

\* "Failed", the totals, sys.exit(1)
PrintResultsFailed ==
    /\ main_pc = "verdict"
    /\ TotalErrs(results, args) # 0
    /\ report' = [report EXCEPT !.verdict = "Failed",
                                !.total_errors = TotalErrs(results, args),
                                !.playbook_path_errors =
                                    IF results.errors.playbook_paths # 0
                                    THEN results.errors.playbook_paths ELSE NotSet]
    /\ exit_status' = 1
    /\ main_pc' = "exited"
    /\ UNCHANGED <<good_yaml, bad_yaml, main_fs, args, results, main_others>>

PrintResultsNext ==
    \/ PrintResultsAsErrors \/ PrintResultsWarnings \/ PrintResultsIgnore
    \/ PrintResultsPassed \/ PrintResultsFailed

\* No run of main under way.
MainIdle ==
    /\ good_yaml = <<>>
    /\ bad_yaml = <<>>
    /\ main_fs = {}
    /\ args = [check_playbook_paths |-> FALSE, warnings_as_errors |-> FALSE,
               ignore_warnings |-> FALSE]
    /\ results = [errors |-> [duplicated_semaphores |-> 0, playbook_paths |-> 0, yaml |-> 0],
                  warnings |-> [duplicated_jobs |-> {}, inexistent_nodesets |-> {},
                                bad_yaml_files |-> <<>>]]
    /\ main_pc = "idle"
    /\ report = NoReport
    /\ exit_status = NotSet

\* ============================================================================ main
\* The job documents of a run: a name or none, a job-level semaphore or none,
\* a run that is a playbook path or an object with a semaphore or absent, a
\* nodeset named or absent.
MainJobDocs ==
    {[job |-> a @@ b @@ c @@ d] :
        a \in NameParts,
        b \in {EmptyDict, [semaphores |-> Str(1)]},
        c \in {EmptyDict, [run |-> PlaybookPath], [run |-> Dict([semaphores |-> Str(1)])]},
        d \in {EmptyDict, [nodeset |-> Str(1)]}}

\* A job whose inline nodeset lists a node as a bare string.
BareNodeJobDoc == [job |-> [name |-> 1, nodeset |-> Dict([nodes |-> List(<<Str(1)>>)])]]

\* The documents of a file: jobs and a nodeset declaration.
MainDocs == MainJobDocs \cup {BareNodeJobDoc, [nodeset |-> [name |-> 1]]}

\* A .yaml file: text that does not parse, an empty file (safe_load gives
\* None), or a list of documents; schema_errors is the number of errors the
\* validator yields for what was loaded.
YamlFileValues ==
    {[state |-> "invalid"]}
        \cup {[state |-> "empty", schema_errors |-> n] : n \in 0..MaxSchemaErrors}
        \cup {[state |-> "yaml", schema_errors |-> n, docs |-> d] :
                 n \in 0..MaxSchemaErrors, d \in SeqsUpTo(MainDocs, MaxDocsPerFile)}

\* lint: one error for a YAMLError, else one per validation error.
lint(file) == IF file.state = "invalid" THEN 1 ELSE file.schema_errors

RECURSIVE LintFrom(_, _)
LintFrom(files, i) == IF i > Len(files) THEN 0 ELSE lint(files[i]) + LintFrom(files, i + 1)

\* sum(lint_single_yaml_file(file_path, schema) for file_path in file_paths)
lint_all_yaml_files(files) == LintFrom(files, 1)

\* How get_zuul_object_from_yaml ends on a file: yaml.YAMLError is caught and
\* the process exits; iterating None is a TypeError nothing catches.
LoadOutcome(file) ==
    IF file.state = "invalid" THEN "exit"
    ELSE IF file.state = "empty" THEN "raise"
    ELSE "list"

RECURSIVE FirstFailureFrom(_, _)
FirstFailureFrom(files, i) ==
    IF i > Len(files) THEN "none"
    ELSE IF LoadOutcome(files[i]) # "list" THEN LoadOutcome(files[i])
    ELSE FirstFailureFrom(files, i + 1)

\* The files are loaded in order: how the first file that does not load ends
\* the run.
FirstFailure(files) == FirstFailureFrom(files, 1)

\* [obj for obj in yaml.safe_load(f) if obj.get(obj_type.value)]
ObjectsOfFile(type, file) ==
    SelectSeq(file.docs, LAMBDA d : type \in DOMAIN d /\ DOMAIN d[type] # {})

RECURSIVE ObjectsFrom(_, _, _)
ObjectsFrom(files, type, i) ==
    IF i > Len(files) THEN <<>>
    ELSE ObjectsOfFile(type, files[i]) \o ObjectsFrom(files, type, i + 1)

\* all_zuul_objects.extend(zuul_objects) for every file
get_all_zuul_objects_by_type(files, type) == ObjectsFrom(files, type, 1)

RECURSIVE InvalidOfJobs(_, _, _)
\* for job in jobs: invalid_paths.extend(check_job_playbook_paths(job.get("job", {})))
InvalidOfJobs(fs, docs, i) ==
    IF i > Len(docs) THEN <<>>
    ELSE check_job_playbook_paths(fs, docs[i].job) \o InvalidOfJobs(fs, docs, i + 1)

\* lint_playbook_paths: the jobs of every file, file after file.
lint_playbook_paths(fs, files) ==
    InvalidOfJobs(fs, get_all_zuul_objects_by_type(files, "job"), 1)

\* jobs_dict: one job list per file.
JobsDict(files) == [i \in DOMAIN files |-> ObjectsOfFile("job", files[i])]

\* Mutant: the playbook paths are checked whatever the flag.
ChecksPlaybookPathsAlways(a) == TRUE

\* if args.check_playbook_paths
ChecksPlaybookPaths(a) == a.check_playbook_paths

\* The step at main_pc loads the files.
LoadsFiles ==
    \/ main_pc = "playbook_paths" /\ ChecksPlaybookPaths(args)
    \/ main_pc = "duplicated_jobs"

\* check_inexistent_nodesets raises on some job.
NodesetsRaises(files) ==
    \E i \in DOMAIN get_all_zuul_objects_by_type(files, "job") :
        JobRaises(get_all_zuul_objects_by_type(files, "job")[i])

\* main after the files were found and the results dictionary initialised.
MainInit ==
    /\ \E n \in 0..MaxGoodFiles : good_yaml \in [1..n -> YamlFileValues]
    /\ bad_yaml \in BadYamlLists
    /\ main_fs \in {{}, Paths}
    /\ args \in ArgsValues
    /\ results = [errors |-> [duplicated_semaphores |-> 0, playbook_paths |-> 0, yaml |-> 0],
                  warnings |-> [duplicated_jobs |-> {}, inexistent_nodesets |-> {},
                                bad_yaml_files |-> bad_yaml]]
    /\ main_pc = "lint"
    /\ report = NoReport
    /\ exit_status = NotSet

\* results["errors"]["yaml"] = lint_all_yaml_files(zuul_good_yaml, schema)
MainLint ==
    /\ main_pc = "lint"
    /\ results' = [results EXCEPT !.errors.yaml = lint_all_yaml_files(good_yaml)]
    /\ main_pc' = "playbook_paths"
    /\ UNCHANGED <<good_yaml, bad_yaml, main_fs, args, report, exit_status, main_others>>

\* The flag is not given: the step is passed over.
MainSkipPlaybookPaths ==
    /\ main_pc = "playbook_paths"
    /\ ~ChecksPlaybookPaths(args)
    /\ main_pc' = "duplicated_jobs"
    /\ UNCHANGED <<good_yaml, bad_yaml, main_fs, args, results, report, exit_status, main_others>>

\* invalid_playbook_paths = lint_playbook_paths(zuul_good_yaml); the count is
\* stored when the list is not empty.
MainPlaybookPaths ==
    /\ main_pc = "playbook_paths"
    /\ ChecksPlaybookPaths(args)
    /\ FirstFailure(good_yaml) = "none"
    /\ results' = IF Len(lint_playbook_paths(main_fs, good_yaml)) # 0
                  THEN [results EXCEPT !.errors.playbook_paths =
                                           Len(lint_playbook_paths(main_fs, good_yaml))]
                  ELSE results
    /\ main_pc' = "duplicated_jobs"
    /\ UNCHANGED <<good_yaml, bad_yaml, main_fs, args, report, exit_status, main_others>>

\* results["warnings"]["duplicated_jobs"] = check_duplicated_jobs(jobs_dict)
MainDupJobs ==
    /\ main_pc = "duplicated_jobs"
    /\ FirstFailure(good_yaml) = "none"
    /\ results' = [results EXCEPT !.warnings.duplicated_jobs =
                                      check_duplicated_jobs(JobsDict(good_yaml))]
    /\ main_pc' = "inexistent_nodesets"
    /\ UNCHANGED <<good_yaml, bad_yaml, main_fs, args, report, exit_status, main_others>>

\* results["warnings"]["inexistent_nodesets"] = check_inexistent_nodesets(...)
MainNodesets ==
    /\ main_pc = "inexistent_nodesets"
    /\ ~NodesetsRaises(good_yaml)
    /\ results' = [results EXCEPT !.warnings.inexistent_nodesets =
                      check_inexistent_nodesets(
                          get_all_zuul_objects_by_type(good_yaml, "nodeset"),
                          get_all_zuul_objects_by_type(good_yaml, "job"))]
    /\ main_pc' = "duplicate_semaphore"
    /\ UNCHANGED <<good_yaml, bad_yaml, main_fs, args, report, exit_status, main_others>>

\* results["errors"]["duplicated_semaphores"] = len(duplicate_semaphore)
MainSemaphores ==
    /\ main_pc = "duplicate_semaphore"
    /\ results' = [results EXCEPT !.errors.duplicated_semaphores =
                      Cardinality(check_duplicate_semaphore(
                          get_all_zuul_objects_by_type(good_yaml, "job")))]
    /\ main_pc' = "print_results"
    /\ UNCHANGED <<good_yaml, bad_yaml, main_fs, args, report, exit_status, main_others>>

\* get_zuul_object_from_yaml catches yaml.YAMLError: sys.exit(1).
MainExits ==
    /\ LoadsFiles
    /\ FirstFailure(good_yaml) = "exit"
    /\ main_pc' = "exited"
    /\ exit_status' = 1
    /\ UNCHANGED <<good_yaml, bad_yaml, main_fs, args, results, report, main_others>>

\* An exception nothing catches leaves main: the TypeError of an empty file,
\* an exception of the nodeset check.  The interpreter prints the traceback
\* and ends with status 1.
MainRaises ==
    /\ \/ LoadsFiles /\ FirstFailure(good_yaml) = "raise"
       \/ main_pc = "inexistent_nodesets" /\ NodesetsRaises(good_yaml)
    /\ main_pc' = "raised"
    /\ exit_status' = 1
    /\ UNCHANGED <<good_yaml, bad_yaml, main_fs, args, results, report, main_others>>

MainNext ==
    \/ MainLint \/ MainSkipPlaybookPaths \/ MainPlaybookPaths \/ MainDupJobs
    \/ MainNodesets \/ MainSemaphores \/ MainExits \/ MainRaises
    \/ PrintResultsNext

\* ============================================================ successive calls
\* The checkers called one after the other, any number of times, on a few
\* arguments each.  The variables of a checker keep what the last call left
\* in them until the next call binds them anew.
NoneReturned == returned = {}

\* Arguments of the calls of check_duplicated_jobs.
DupJobsCalls ==
    LET a == [job |-> [name |-> 1]]
    IN  {<<<<a>>>>, <<<<a>>, <<a>>>>, <<<<NamelessJobDoc>>, <<a>>>>}

\* Arguments of the calls of check_duplicate_semaphore.
SemCalls ==
    LET a == [job |-> [name |-> 1, semaphores |-> Str(1)]]
        b == [job |-> [name |-> 1, run |-> Dict([semaphores |-> Str(1)])]]
    IN  {<<a>>, <<b>>, <<EmptyDict, a, b>>}

\* Filesystem and argument of the calls of check_job_playbook_paths.
PathsCalls ==
    {<<{}, [run |-> Str(1)]>>, <<{1}, [run |-> Str(1)]>>,
     <<{}, [run |-> Dict([name |-> NotAString])]>>}

\* Arguments of the calls of check_inexistent_nodesets.
NsCalls ==
    LET byname == <<[job |-> EmptyDict], [job |-> [nodeset |-> Str(1)]]>>
        nameless == <<[job |-> [nodeset |-> Dict([nodes |-> List(<<Dict(EmptyDict)>>)])]]>>
    IN  {<<<<>>, byname>>, <<<<[nodeset |-> [name |-> 1]]>>, byname>>, <<<<>>, nameless>>}

\* No call under way: every checker has given its result or has raised.
AtRest ==
    /\ dj_pc = "idle"
    /\ sem_pc = "idle"
    /\ pp_pc \in {"idle", "raised"}
    /\ ns_pc \in {"idle", "raised"}

DupJobsCall ==
    /\ AtRest
    /\ jobs' \in DupJobsCalls
    /\ dj_pc' = "loop"
    /\ dj_idx' = 1
    /\ seen_items' = DupJobsLocals.seen_items
    /\ duplicated_items' = DupJobsLocals.duplicated_items
    /\ unique_items' = DupJobsLocals.unique_items
    /\ dj_result' = {}
    /\ UNCHANGED dj_others

SemCall ==
    /\ AtRest
    /\ sem_jobs' \in SemCalls
    /\ sem_pc' = "collect"
    /\ sem_idx' = 1
    /\ job_semaphore_list' = SemLocals.job_semaphore_list
    /\ run_semaphore_list' = SemLocals.run_semaphore_list
    /\ duplicate_semaphores' = {}
    /\ UNCHANGED sem_others

PathsCall ==
    /\ AtRest
    /\ \E c \in PathsCalls : pp_fs' = c[1] /\ pp_job' = c[2]
    /\ pp_pc' = "loop"
    /\ pp_idx' = 1
    /\ invalid_paths' = <<>>
    /\ UNCHANGED pp_others

NsCall ==
    /\ AtRest
    /\ \E c \in NsCalls : ns_nodesets' = c[1] /\ ns_jobs' = c[2]
    /\ ns_pc' = "nodesets"
    /\ ns_idx' = 1
    /\ nodeset_list' = {}
    /\ inexistent_nodesets' = {}
    /\ UNCHANGED ns_others

\* The caller receives the returned value.
DupJobsTake ==
    /\ dj_pc = "done"
    /\ dj_pc' = "idle"
    /\ returned' = returned \cup {<<"check_duplicated_jobs", jobs, dj_result>>}
    /\ UNCHANGED <<jobs, dj_idx, seen_items, duplicated_items, unique_items, dj_result,
                   sem_vars, pp_vars, ns_vars, yf_vars, oy_vars, main_vars>>

SemTake ==
    /\ sem_pc = "done"
    /\ sem_pc' = "idle"
    /\ returned' = returned \cup {<<"check_duplicate_semaphore", sem_jobs, duplicate_semaphores>>}
    /\ UNCHANGED <<sem_jobs, sem_idx, job_semaphore_list, run_semaphore_list,
                   duplicate_semaphores, dj_vars, pp_vars, ns_vars, yf_vars, oy_vars, main_vars>>

PathsTake ==
    /\ pp_pc = "done"
    /\ pp_pc' = "idle"
    /\ returned' = returned \cup {<<"check_job_playbook_paths", <<pp_fs, pp_job>>, invalid_paths>>}
    /\ UNCHANGED <<pp_job, pp_fs, pp_idx, invalid_paths, dj_vars, sem_vars, ns_vars,
                   yf_vars, oy_vars, main_vars>>

NsTake ==
    /\ ns_pc = "done"
    /\ ns_pc' = "idle"
    /\ returned' = returned \cup
           {<<"check_inexistent_nodesets", <<ns_nodesets, ns_jobs>>, inexistent_nodesets>>}
    /\ UNCHANGED <<ns_nodesets, ns_jobs, ns_idx, nodeset_list, inexistent_nodesets,
                   dj_vars, sem_vars, pp_vars, yf_vars, oy_vars, main_vars>>

CallsNext ==
    \/ DupJobsCall \/ SemCall \/ PathsCall \/ NsCall
    \/ DupJobsNext \/ SemNext \/ PathsNext \/ NsNext
    \/ DupJobsTake \/ SemTake \/ PathsTake \/ NsTake

\* ========================================================== specifications
\* One call of check_duplicated_jobs on any input of the bounded family.
InitDupJobs == DupJobsInit /\ SemIdle /\ PathsIdle /\ NsIdle /\ NoneReturned /\ MainIdle /\ UtilsIdle

SpecDupJobs == InitDupJobs /\ [][DupJobsNext]_vars

\* One call of check_duplicate_semaphore on any input of the bounded family.
InitSem == SemInit /\ DupJobsIdle /\ PathsIdle /\ NsIdle /\ NoneReturned /\ MainIdle /\ UtilsIdle

SpecSem == InitSem /\ [][SemNext]_vars

\* One call of check_job_playbook_paths on any job and filesystem of the
\* bounded family.
InitPaths == PathsInit /\ DupJobsIdle /\ SemIdle /\ NsIdle /\ NoneReturned /\ MainIdle /\ UtilsIdle

SpecPaths == InitPaths /\ [][PathsNext]_vars

\* One call of check_inexistent_nodesets on any declarations and jobs of the
\* bounded family.
InitNodesets == NsInit /\ DupJobsIdle /\ SemIdle /\ PathsIdle /\ NoneReturned /\ MainIdle /\ UtilsIdle

SpecNodesets == InitNodesets /\ [][NsNext]_vars

\* One call of get_zuul_yaml_files on any path of any tree of the family.
InitYamlFiles ==
    YamlFilesInit /\ ObjectsIdle /\ DupJobsIdle /\ SemIdle /\ PathsIdle /\ NsIdle /\ NoneReturned /\ MainIdle

SpecYamlFiles == InitYamlFiles /\ [][YamlFilesNext]_vars

\* One call of get_zuul_object_from_yaml on any file of the family.
InitObjects ==
    ObjectsInit /\ YamlFilesIdle /\ DupJobsIdle /\ SemIdle /\ PathsIdle /\ NsIdle /\ NoneReturned /\ MainIdle

SpecObjects == InitObjects /\ [][ObjectsNext]_vars

\* One call of print_results on any results and flags of the family.
InitPrintResults ==
    PrintResultsInit /\ UtilsIdle /\ DupJobsIdle /\ SemIdle /\ PathsIdle /\ NsIdle
        /\ returned = {}

SpecPrintResults == InitPrintResults /\ [][PrintResultsNext]_vars

\* One run of main on any files, filesystem and flags of the family.
InitMain ==
    MainInit /\ UtilsIdle /\ DupJobsIdle /\ SemIdle /\ PathsIdle /\ NsIdle /\ returned = {}

SpecMain == InitMain /\ [][MainNext]_vars

\* Any sequence of calls of the four checkers.
InitCalls == DupJobsIdle /\ SemIdle /\ PathsIdle /\ NsIdle /\ NoneReturned /\ MainIdle /\ UtilsIdle

SpecCalls == InitCalls /\ [][CallsNext]_vars

\* ================================================================== claims
\* ---------------------------------------------------------- reference sets
\* The names declared in file f, nameless documents left out.
NamesOfFile(files, f) ==
    {files[f][k].job.name : k \in {k \in DOMAIN files[f] : "name" \in DOMAIN files[f][k].job}}

\* Names that occur in the job lists of at least two distinct files.
NamesInTwoFiles(files) ==
    {n \in JobNames : \E f, g \in DOMAIN files :
        f # g /\ n \in NamesOfFile(files, f) /\ n \in NamesOfFile(files, g)}

AllJobsNamed(files) == \A f \in DOMAIN files : ~RaisesKeyError(files[f])

\* C1: when every job has a name, check_duplicated_jobs returns exactly the
\* names that occur in the job lists of at least two distinct files.
C1_DuplicatedJobsExact ==
    (dj_pc = "done" /\ AllJobsNamed(jobs)) => dj_result = NamesInTwoFiles(jobs)

\* A finished call on named jobs that reports a name and leaves out a name
\* repeated inside one file only.
C1_Witness ==
    /\ dj_pc = "done"
    /\ AllJobsNamed(jobs)
    /\ dj_result # {}
    /\ \E f \in DOMAIN jobs : \E h, k \in DOMAIN jobs[f] :
          h # k /\ jobs[f][h].job.name = jobs[f][k].job.name
                /\ jobs[f][h].job.name \notin dj_result

\* C2: a nameless job is skipped on its own; the named jobs of its file
\* still take part, so a name they share with another file is returned.
C2_NamelessSkippedAlone ==
    dj_pc = "done" => dj_result = NamesInTwoFiles(jobs)

\* C3: the result does not depend on the order in which the files are visited.
C3_OrderIndependent ==
    dj_pc = "done" =>
        \A p \in FileOrders(Len(jobs)) :
            check_duplicated_jobs([i \in 1..Len(jobs) |-> jobs[p[i]]]) = dj_result

\* A finished call on three files, no two alike, one of them skipped, with a finding.
C3_Witness ==
    /\ dj_pc = "done"
    /\ Len(jobs) = 3
    /\ jobs[1] # jobs[2]
    /\ jobs[2] # jobs[3]
    /\ jobs[1] # jobs[3]
    /\ \E f \in DOMAIN jobs : RaisesKeyError(jobs[f])
    /\ dj_result # {}

\* ------------------------------------------------- reference sets, semaphores
NamedDocs(docs) == {i \in DOMAIN docs : HasJobName(docs[i])}

\* The names a `semaphores` value of dict d declares.
DeclaredIn(d) ==
    IF "semaphores" \notin DOMAIN d THEN {}
    ELSE IF d.semaphores.t = "str" THEN {d.semaphores.v}
    ELSE {d.semaphores.v[k] : k \in DOMAIN d.semaphores.v}

\* Job-level semaphores of document i.
JobLevel(docs, i) == DeclaredIn(docs[i].job)

\* The objects among the run entries of document i.
RunObjects(docs, i) ==
    LET a == docs[i].job
    IN IF "run" \notin DOMAIN a THEN {}
       ELSE IF a.run.t = "dict" THEN {a.run.v}
       ELSE IF a.run.t = "list"
            THEN {a.run.v[k].v : k \in {k \in DOMAIN a.run.v : a.run.v[k].t = "dict"}}
       ELSE {}

\* Semaphores on the run entries of document i.
OnRun(docs, i) == UNION {DeclaredIn(o) : o \in RunObjects(docs, i)}

\* Union of the self-conflicts, every named list element its own job.
ConflictsPerDocument(docs) ==
    UNION {JobLevel(docs, i) \cap OnRun(docs, i) : i \in NamedDocs(docs)}

\* Union of the self-conflicts, the documents of one name taken together.
ConflictsPerName(docs) ==
    UNION {UNION {JobLevel(docs, i) : i \in {i \in NamedDocs(docs) : docs[i].job.name = n}}
             \cap UNION {OnRun(docs, i) : i \in {i \in NamedDocs(docs) : docs[i].job.name = n}}
           : n \in JobNames}

DistinctNames(docs) ==
    \A i, j \in NamedDocs(docs) : docs[i].job.name = docs[j].job.name => i = j

\* C4 as claimed: the result is the union over the named list elements, each
\* taken as one job, of job-level semaphores intersected with run semaphores.
C4_PerDocumentConflicts ==
    sem_pc = "done" => duplicate_semaphores = ConflictsPerDocument(sem_jobs)

\* C4 amended: the result is the union over the job names of the list of the
\* job-level semaphores of the documents of that name intersected with the
\* run semaphores of the documents of that name.
C4_PerNameConflicts ==
    sem_pc = "done" => duplicate_semaphores = ConflictsPerName(sem_jobs)

\* A finished call with a finding in one job, next to a job without `run`
\* and with job-level semaphores.
C4_Witness ==
    /\ sem_pc = "done"
    /\ Len(sem_jobs) = 2
    /\ DistinctNames(sem_jobs) /\ NamedDocs(sem_jobs) = {1, 2}
    /\ duplicate_semaphores # {}
    /\ \E i \in {1, 2} : "run" \notin DOMAIN sem_jobs[i].job /\ JobLevel(sem_jobs, i) # {}

\* C5: with pairwise different job names, a semaphore at job level in one
\* job only and on run entries of other jobs only is not reported.
C5_NoCrossJobOverlap ==
    (sem_pc = "done" /\ DistinctNames(sem_jobs)) =>
        \A s \in SemaphoreNames : \A i \in NamedDocs(sem_jobs) :
            (/\ s \in JobLevel(sem_jobs, i)
             /\ s \notin OnRun(sem_jobs, i)
             /\ \A j \in NamedDocs(sem_jobs) \ {i} : s \notin JobLevel(sem_jobs, j))
                => s \notin duplicate_semaphores

\* Two jobs of different names, s at job level of one and on the run of the
\* other, the other having a finding of its own.
C5_Witness ==
    /\ sem_pc = "done"
    /\ DistinctNames(sem_jobs)
    /\ duplicate_semaphores # {}
    /\ \E s \in SemaphoreNames : \E i, j \in NamedDocs(sem_jobs) :
          /\ i # j
          /\ s \in JobLevel(sem_jobs, i) /\ s \notin OnRun(sem_jobs, i)
          /\ s \notin JobLevel(sem_jobs, j) /\ s \in OnRun(sem_jobs, j)
          /\ s \notin duplicate_semaphores

\* C6: documents with the same name are one job: a semaphore at job level in
\* one of them and on a run entry of another one is reported.
C6_SameNameMerged ==
    sem_pc = "done" =>
        \A i, j \in NamedDocs(sem_jobs) :
            (i # j /\ sem_jobs[i].job.name = sem_jobs[j].job.name)
                => (JobLevel(sem_jobs, i) \cap OnRun(sem_jobs, j)) \subseteq duplicate_semaphores

\* Two documents of one name, neither with a conflict of its own, and a finding.
C6_Witness ==
    /\ sem_pc = "done"
    /\ \E i, j \in NamedDocs(sem_jobs) :
          /\ i # j /\ sem_jobs[i].job.name = sem_jobs[j].job.name
          /\ JobLevel(sem_jobs, i) \cap OnRun(sem_jobs, j) # {}
    /\ ConflictsPerDocument(sem_jobs) = {}
    /\ duplicate_semaphores # {}

\* ---------------------------------------------- input rewritings (C7, C8, C9)
WithoutKey(d, key) == [k \in DOMAIN d \ {key} |-> d[k]]

MapDocs(docs, F(_)) == [i \in DOMAIN docs |-> IF "job" \in DOMAIN docs[i] THEN [job |-> F(docs[i].job)] ELSE docs[i]]

IsObject(e) == e.t = "dict"

\* The job without its bare strings: a string `run` gone, the path strings
\* of a `run` list gone.
StripAttrs(a) ==
    IF "run" \notin DOMAIN a THEN a
    ELSE IF a.run.t = "str" THEN WithoutKey(a, "run")
    ELSE IF a.run.t = "list" THEN SetItem(a, "run", List(SelectSeq(a.run.v, IsObject)))
    ELSE a

\* `run` is a bare string, or a list of bare strings only.
StringOnlyRun(a) ==
    /\ "run" \in DOMAIN a
    /\ \/ a.run.t = "str"
       \/ a.run.t = "list" /\ \A k \in DOMAIN a.run.v : a.run.v[k].t = "str"

\* The names all of whose documents have a run of bare strings only.
StringOnlyNames(docs) ==
    {n \in JobNames : \A i \in NamedDocs(docs) : docs[i].job.name = n => StringOnlyRun(docs[i].job)}

NotStringOnly(docs, doc) == ~(HasJobName(doc) /\ doc.job.name \in StringOnlyNames(docs))

\* "s" written as ["s"], at job level and on the run entries.
ListifyDict(d) ==
    IF "semaphores" \in DOMAIN d /\ d.semaphores.t = "str"
    THEN SetItem(d, "semaphores", List(<<d.semaphores.v>>))
    ELSE d

ListifyEntry(e) == IF e.t = "dict" THEN Dict(ListifyDict(e.v)) ELSE e

ListifyAttrs(a) ==
    LET b == ListifyDict(a)
    IN IF "run" \notin DOMAIN b THEN b
       ELSE IF b.run.t = "list"
            THEN SetItem(b, "run", List([k \in DOMAIN b.run.v |-> ListifyEntry(b.run.v[k])]))
       ELSE SetItem(b, "run", ListifyEntry(b.run))

\* A single run object written as a one-element list.
WrapRunAttrs(a) ==
    IF "run" \in DOMAIN a /\ a.run.t = "dict" THEN SetItem(a, "run", List(<<a.run>>)) ELSE a

\* C7: bare strings contribute no run semaphore: the result is that of the
\* list without them, the jobs whose run is only bare strings yield nothing
\* (the result is that of the list without these jobs).
C7_BareStringsContributeNothing ==
    sem_pc = "done" =>
        /\ duplicate_semaphores = check_duplicate_semaphore(MapDocs(sem_jobs, StripAttrs))
        /\ duplicate_semaphores =
               check_duplicate_semaphore(SelectSeq(sem_jobs, LAMBDA d : NotStringOnly(sem_jobs, d)))

\* A job with job-level semaphores whose run is a bare string, next to a job
\* whose run list holds a bare path before an object with a reported semaphore.
C7_Witness ==
    /\ sem_pc = "done"
    /\ DistinctNames(sem_jobs) /\ NamedDocs(sem_jobs) = {1, 2}
    /\ \E i, j \in {1, 2} :
          /\ i # j
          /\ "run" \in DOMAIN sem_jobs[i].job /\ sem_jobs[i].job.run.t = "str"
          /\ JobLevel(sem_jobs, i) # {}
          /\ "run" \in DOMAIN sem_jobs[j].job /\ sem_jobs[j].job.run.t = "list"
          /\ Len(sem_jobs[j].job.run.v) = 2
          /\ sem_jobs[j].job.run.v[1].t = "str"
          /\ sem_jobs[j].job.run.v[2].t = "dict"
          /\ DeclaredIn(sem_jobs[j].job.run.v[2].v) \cap duplicate_semaphores # {}
          /\ JobLevel(sem_jobs, i) \cap duplicate_semaphores = {}

\* C8: writing a `semaphores` string as a one-element list, or a single run
\* object as a one-element list, does not change the result.
C8_ShapesNormalized ==
    sem_pc = "done" =>
        /\ duplicate_semaphores = check_duplicate_semaphore(MapDocs(sem_jobs, ListifyAttrs))
        /\ duplicate_semaphores = check_duplicate_semaphore(MapDocs(sem_jobs, WrapRunAttrs))

\* A finding made from a job-level string and the string of a single run object.
C8_Witness ==
    /\ sem_pc = "done"
    /\ Len(sem_jobs) = 1 /\ HasJobName(sem_jobs[1])
    /\ "semaphores" \in DOMAIN sem_jobs[1].job /\ sem_jobs[1].job.semaphores.t = "str"
    /\ "run" \in DOMAIN sem_jobs[1].job /\ sem_jobs[1].job.run.t = "dict"
    /\ "semaphores" \in DOMAIN sem_jobs[1].job.run.v
    /\ sem_jobs[1].job.run.v.semaphores.t = "str"
    /\ duplicate_semaphores = {sem_jobs[1].job.semaphores.v}

\* C9: a job without a name is skipped entirely: the result is that of the
\* list without the nameless jobs, whatever semaphores they carry.
C9_NamelessSkipped ==
    sem_pc = "done" =>
        /\ duplicate_semaphores = check_duplicate_semaphore(SelectSeq(sem_jobs, HasJobName))
        /\ duplicate_semaphores \subseteq UNION {JobLevel(sem_jobs, j) : j \in NamedDocs(sem_jobs)}

\* A nameless job with a semaphore on its job level and on its run, not
\* reported, next to a named job with a reported one.
C9_Witness ==
    /\ sem_pc = "done"
    /\ duplicate_semaphores # {}
    /\ \E i \in DOMAIN sem_jobs :
          /\ "job" \in DOMAIN sem_jobs[i]
          /\ ~HasJobName(sem_jobs[i])
          /\ (JobLevel(sem_jobs, i) \cap OnRun(sem_jobs, i)) \ duplicate_semaphores # {}

\* ------------------------------------------------ reference lists, playbooks
\* The paths one phase entry refers to.
RefsOfEntry(e) ==
    IF e.t = "str" THEN <<e.v>>
    ELSE IF e.t = "dict" /\ "name" \in DOMAIN e.v THEN <<e.v.name>>
    ELSE <<>>

RECURSIVE RefsOfList(_, _)
RefsOfList(l, i) == IF i > Len(l) THEN <<>> ELSE RefsOfEntry(l[i]) \o RefsOfList(l, i + 1)

\* The paths the phase `key` of the job refers to, in source order.
RefsOfPhase(job, key) ==
    IF key \notin DOMAIN job THEN <<>>
    ELSE IF job[key].t = "list" THEN RefsOfList(job[key].v, 1)
    ELSE RefsOfEntry(job[key])

\* All referenced paths: pre-run, run, post-run, cleanup-run.
Referenced(job) ==
    RefsOfPhase(job, "pre-run") \o RefsOfPhase(job, "run")
        \o RefsOfPhase(job, "post-run") \o RefsOfPhase(job, "cleanup-run")

\* C10: check_job_playbook_paths returns exactly the referenced paths that do
\* not exist, in phase order then source order, once per reference.
C10_MissingPathsInOrder ==
    pp_pc = "done" =>
        invalid_paths = SelectSeq(Referenced(pp_job), LAMBDA q : q \notin pp_fs)

\* Two phases, a missing path referenced twice, another missing path, and a
\* referenced path that exists.
C10_Witness ==
    /\ pp_pc = "done"
    /\ Cardinality(DOMAIN pp_job) = 2
    /\ Len(invalid_paths) >= 3
    /\ \E i, j \in DOMAIN invalid_paths : i # j /\ invalid_paths[i] = invalid_paths[j]
    /\ Len(Referenced(pp_job)) > Len(invalid_paths)

\* The four ways to write one reference to the path q.
FormsOf(q) == {Str(q), Dict([name |-> q]), List(<<Str(q)>>), List(<<Dict([name |-> q])>>)}

\* C11: a phase written as the bare path q, as the object {name: q}, as [q]
\* or as [{name: q}] gives the same result, for every phase key and path.
C11_FormsEquivalent ==
    pp_pc = "done" =>
        \A k \in DOMAIN pp_job : \A q \in Paths :
            pp_job[k] \in FormsOf(q) =>
                \A f \in FormsOf(q) :
                    check_job_playbook_paths(pp_fs, SetItem(pp_job, k, f)) = invalid_paths

\* A phase written as the object {name: q} with q missing, reported next to
\* the finding of another phase.
C11_Witness ==
    /\ pp_pc = "done"
    /\ Cardinality(DOMAIN pp_job) = 2
    /\ Len(invalid_paths) >= 2
    /\ \E k \in DOMAIN pp_job : \E q \in Paths \ pp_fs : pp_job[k] = Dict([name |-> q])

\* An entry that is a string or an object with a `name`.
WellFormedEntry(e) == e.t = "str" \/ (e.t = "dict" /\ "name" \in DOMAIN e.v)

\* The job without the entries that are neither.
WithoutMalformed(job) ==
    [k \in {k \in DOMAIN job : job[k].t = "list" \/ WellFormedEntry(job[k])} |->
        IF job[k].t = "list" THEN List(SelectSeq(job[k].v, WellFormedEntry)) ELSE job[k]]

\* C12: check_job_playbook_paths never fails on the shape of a phase field,
\* and returns the missing paths of the well-formed entries, the other
\* entries ignored.
C12_NeverFailsOnShape ==
    /\ pp_pc # "raised"
    /\ pp_pc = "done" =>
           invalid_paths = check_job_playbook_paths(pp_fs, WithoutMalformed(pp_job))


\* The names a list of declarations makes known: the name of a nodeset, the
\* name of a node nested in it, each element of a list-valued node name.
DeclaredNames(nodesets) ==
    {n \in NodeNames :
        \E i \in DOMAIN nodesets :
            \/ nodesets[i].nodeset.name = n
            \/ /\ "nodes" \in DOMAIN nodesets[i].nodeset
               /\ \E j \in DOMAIN nodesets[i].nodeset.nodes :
                    LET name == nodesets[i].nodeset.nodes[j].name
                    IN  IF name.t = "str" THEN name.v = n ELSE \E m \in DOMAIN name.v : name.v[m] = n}

\* The names one job document refers to: the string value of `nodeset`, or
\* the names in the `nodes` of its inline nodeset object.
ReferencedBy(doc) ==
    IF "nodeset" \notin DOMAIN doc.job THEN {}
    ELSE IF doc.job.nodeset.t = "str" THEN {doc.job.nodeset.v}
    ELSE IF "nodes" \notin DOMAIN doc.job.nodeset.v THEN {}
    ELSE LET nodes == doc.job.nodeset.v.nodes
             Named(d) == IF "name" \in DOMAIN d THEN d.name.t = "str" ELSE FALSE
         IN  IF nodes.t = "list"
             THEN {nodes.v[i].v.name.v :
                     i \in {i \in DOMAIN nodes.v :
                              IF nodes.v[i].t = "dict" THEN Named(nodes.v[i].v) ELSE FALSE}}
             ELSE IF Named(nodes.v) THEN {nodes.v.name.v} ELSE {}

\* C13: a call of check_inexistent_nodesets that returns, returns exactly
\* the names the jobs refer to (the string value of `nodeset`, or the names
\* in the `nodes` of an inline object) that no declaration makes known; a
\* job without `nodeset` adds nothing, and the result is empty when every
\* reference is known.
C13_ExactlyUnknownReferences ==
    ns_pc = "done" =>
        inexistent_nodesets =
            UNION {ReferencedBy(ns_jobs[i]) : i \in DOMAIN ns_jobs} \ DeclaredNames(ns_nodesets)

\* A declared name, a job referring by string to an undeclared name, and a
\* job whose inline list holds a declared and an undeclared name: the call
\* returned the undeclared name.
C13_Witness ==
    /\ ns_pc = "done"
    /\ Cardinality(inexistent_nodesets) = 1
    /\ nodeset_list # {}
    /\ Len(ns_jobs) = 2
    /\ "nodeset" \in DOMAIN ns_jobs[1].job
    /\ ns_jobs[1].job.nodeset.t = "str"
    /\ ns_jobs[1].job.nodeset.v \in inexistent_nodesets
    /\ "nodeset" \in DOMAIN ns_jobs[2].job
    /\ ns_jobs[2].job.nodeset.t = "dict"
    /\ "nodes" \in DOMAIN ns_jobs[2].job.nodeset.v
    /\ ns_jobs[2].job.nodeset.v.nodes.t = "list"
    /\ Len(ns_jobs[2].job.nodeset.v.nodes.v) = 2
    /\ ReferencedBy(ns_jobs[2]) = NodeNames

\* C14: check_inexistent_nodesets never reports a name that is the name of
\* a declared nodeset or of a node nested in one, each element of a
\* list-valued nested name counting as a name.
C14_DeclaredNeverReported == inexistent_nodesets \cap DeclaredNames(ns_nodesets) = {}

\* The call returned, and a job refers to a name that is known only as an
\* element of a list-valued nested name.
C14_Witness ==
    /\ ns_pc = "done"
    /\ \E n \in NodeNames :
        /\ \E i \in DOMAIN ns_jobs : n \in ReferencedBy(ns_jobs[i])
        /\ n \in DeclaredNames(ns_nodesets)
        /\ \A i \in DOMAIN ns_nodesets :
            /\ ns_nodesets[i].nodeset.name # n
            /\ "nodes" \in DOMAIN ns_nodesets[i].nodeset =>
                 \A j \in DOMAIN ns_nodesets[i].nodeset.nodes :
                     ns_nodesets[i].nodeset.nodes[j].name # Str(n)

\* An element of an inline `nodes` list with a name.
NamedElement(e) == IF e.t = "dict" THEN "name" \in DOMAIN e.v ELSE FALSE

\* No reference of the jobs has a list-valued name.
NoListNamedRefs(docs) ==
    \A i \in DOMAIN docs :
        IF SkipsJob(docs[i]) THEN TRUE
        ELSE LET nodes == JobNodesetsOf(docs[i])
             IN  IF nodes.t = "list"
                 THEN \A j \in DOMAIN nodes.v :
                        NamedElement(nodes.v[j]) => nodes.v[j].v.name.t = "str"
                 ELSE IF "name" \in DOMAIN nodes.v THEN nodes.v.name.t = "str" ELSE TRUE

\* The job documents with the elements without a name taken out of the
\* inline `nodes` lists.
WithoutNamelessRefs(docs) ==
    [i \in DOMAIN docs |->
        IF SkipsJob(docs[i]) THEN docs[i]
        ELSE IF docs[i].job.nodeset.t = "str" THEN docs[i]
        ELSE IF docs[i].job.nodeset.v.nodes.t # "list" THEN docs[i]
        ELSE [job |-> [nodeset |->
                Dict([nodes |-> List(SelectSeq(docs[i].job.nodeset.v.nodes.v, NamedElement))])]]]

\* C15: when the only irregular references are elements of inline `nodes`
\* lists without a name, check_inexistent_nodesets does not raise, and it
\* returns what it returns for the same jobs without these elements.
C15_NamelessReferenceSkipped ==
    NoListNamedRefs(ns_jobs) =>
        /\ ns_pc # "raised"
        /\ ns_pc = "done" =>
             inexistent_nodesets =
                 check_inexistent_nodesets(ns_nodesets, WithoutNamelessRefs(ns_jobs))

\* C16: two calls of one checker with the same arguments (and, for the
\* playbook paths, the same filesystem) return the same value, whatever
\* calls were made before or between them.
C16_SameArgumentsSameResult ==
    \A a \in returned : \A b \in returned : (a[1] = b[1] /\ a[2] = b[2]) => a[3] = b[3]

\* check_duplicate_semaphore has returned for a second time on arguments it
\* had returned on before, with calls on other arguments made as well.
C16_Witness ==
    /\ sem_pc = "done"
    /\ <<"check_duplicate_semaphore", sem_jobs, duplicate_semaphores>> \in returned
    /\ \E r \in returned : r[1] = "check_duplicate_semaphore" /\ r[2] # sem_jobs
    /\ \E r \in returned : r[1] = "check_inexistent_nodesets"
    /\ \E r \in returned : r[1] = "check_duplicated_jobs" /\ r[3] # {}

\* A call is under way.
Running == dj_pc = "loop" \/ sem_pc = "collect" \/ pp_pc = "loop" \/ ns_pc \in {"nodesets", "jobs"}

\* C17: no step of a call changes the arguments of the call: the job and
\* the filesystem, the nodesets and the jobs, the file-to-jobs structure.
C17_ArgumentsUnchanged ==
    [][Running => /\ pp_job' = pp_job
                  /\ ns_nodesets' = ns_nodesets
                  /\ ns_jobs' = ns_jobs
                  /\ jobs' = jobs
                  /\ sem_jobs' = sem_jobs]_vars

\* check_job_playbook_paths has returned on a job whose phase value is no
\* list, and check_inexistent_nodesets on a job that names its nodeset by a
\* string.
C17_Witness ==
    /\ ns_pc = "done"
    /\ \E i \in DOMAIN ns_jobs :
          "nodeset" \in DOMAIN ns_jobs[i].job /\ ns_jobs[i].job.nodeset.t = "str"
    /\ \E r \in returned :
          /\ r[1] = "check_job_playbook_paths"
          /\ \E k \in DOMAIN r[2][2] : r[2][2][k].t # "list"
          /\ r[3] # <<>>

RECURSIVE IsUnder(_, _, _)
\* The node n is the path p or lies at some depth below it.
IsUnder(tree, n, p) ==
    IF n = p THEN TRUE
    ELSE IF tree[n].parent = 0 THEN FALSE
    ELSE IsUnder(tree, tree[n].parent, p)

\* The regular files with the suffix `suffix` reachable from the path p.
FilesUnder(tree, p, suffix) ==
    {n \in DOMAIN tree : tree[n].kind = suffix /\ IsUnder(tree, n, p)}

\* The sequence s holds every element of S once and nothing else.
HoldsEachOnce(seq, S) == Range(seq) = S /\ Len(seq) = Cardinality(S)

\* C18: get_zuul_yaml_files returns every .yaml file reachable from the
\* path once under good_yaml, every .yml file once under bad_yaml, no file
\* under both, files with another suffix under neither, and nothing at all
\* for a path that is neither a file nor a directory.
C18_ClassifiedBySuffix ==
    yf_pc = "done" =>
        /\ DOMAIN zuul_yaml_files \subseteq {"good_yaml", "bad_yaml"}
        /\ HoldsEachOnce(GetDefault(zuul_yaml_files, "good_yaml"),
                         FilesUnder(yf_tree, yf_path, ".yaml"))
        /\ HoldsEachOnce(GetDefault(zuul_yaml_files, "bad_yaml"),
                         FilesUnder(yf_tree, yf_path, ".yml"))
        /\ Range(GetDefault(zuul_yaml_files, "good_yaml"))
              \cap Range(GetDefault(zuul_yaml_files, "bad_yaml")) = {}
        /\ (~is_file(yf_tree, yf_path) /\ ~is_dir(yf_tree, yf_path)) => zuul_yaml_files = EmptyDict

\* A directory two levels above a .yaml file, with a .yml file as well.
C18_Witness ==
    /\ yf_pc = "done"
    /\ is_dir(yf_tree, yf_path)
    /\ "good_yaml" \in DOMAIN zuul_yaml_files
    /\ "bad_yaml" \in DOMAIN zuul_yaml_files
    /\ \E n \in Range(zuul_yaml_files["good_yaml"]) :
          yf_tree[n].parent # yf_path /\ yf_tree[n].kind = ".yaml"

\* A mapping that has the key `type` with a value that is not empty.
CarriesKind(obj, type) ==
    IF obj.t # "dict" THEN FALSE
    ELSE IF type \notin DOMAIN obj.v THEN FALSE
    ELSE obj.v[type] \notin {Dict(EmptyDict), Other}

\* The elements of a sequence that carry the kind, in their order.
OfKind(elements, type) == LET Test(obj) == CarriesKind(obj, type) IN SelectSeq(elements, Test)

\* C19: a call of get_zuul_object_from_yaml that returns, returns the
\* documents of the file that have the key asked for with a non-empty
\* value, in the order of the file, and no other document; the list is
\* empty when the file has no such document.
C19_DocumentsOfKindInOrder ==
    oy_pc = "done" =>
        /\ oy_objs = OfKind(IterOf(oy_file.data), oy_type)
        /\ \A i \in DOMAIN oy_objs : oy_type \in DOMAIN oy_objs[i].v

\* Two documents of the kind asked for returned, with a document of another
\* kind and one with an empty value in the same file.
C19_Witness ==
    /\ oy_pc = "done"
    /\ Len(oy_objs) = 2
    /\ oy_objs[1] # oy_objs[2]
    /\ Len(oy_file.data.v) = 3
    /\ \E i \in DOMAIN oy_file.data.v : oy_type \notin DOMAIN oy_file.data.v[i].v

\* The file is missing, is no valid YAML, or has a top-level element that is
\* no mapping.
MustExit(file) ==
    IF file.state # "yaml" THEN TRUE
    ELSE IF file.data.t # "list" THEN FALSE
    ELSE \E i \in DOMAIN file.data.v : file.data.v[i].t # "dict"

FitsDataModel(docs) ==
    \A i \in DOMAIN docs :
        IF "nodeset" \notin DOMAIN docs[i].job THEN TRUE
        ELSE IF docs[i].job.nodeset.t = "str" THEN TRUE
        ELSE IF "nodes" \notin DOMAIN docs[i].job.nodeset.v THEN FALSE
        ELSE IF docs[i].job.nodeset.v.nodes.t # "list" THEN FALSE
        ELSE \A j \in DOMAIN docs[i].job.nodeset.v.nodes.v :
                NamedElement(docs[i].job.nodeset.v.nodes.v[j])

\* C23: on declarations and jobs that fit the documented data model,
\* check_inexistent_nodesets does not raise.
C23_DataModelNeverRaises == FitsDataModel(ns_jobs) => ns_pc # "raised"

\* C25: for a file that exists, get_zuul_object_from_yaml returns a list or
\* exits with status 1: no exception escapes it.
C25_ReturnsOrExits == oy_file.state # "missing" => oy_pc # "raised"

\* The number of warnings of a results dictionary, counted kind by kind.
WarningCount(r) ==
    Len(r.warnings.bad_yaml_files) + Cardinality(r.warnings.duplicated_jobs)
        + Cardinality(r.warnings.inexistent_nodesets)

\* The number of errors of a results dictionary, counted kind by kind.
ErrorCount(r) ==
    r.errors.yaml + r.errors.playbook_paths + r.errors.duplicated_semaphores

\* C22: print_results ends the process with status 0 exactly when the total
\* error count is 0 and with status 1 otherwise; the total is schema errors +
\* invalid playbook paths + duplicated semaphores, plus the warnings only when
\* warnings_as_errors is set, whatever ignore_warnings says; without
\* warnings_as_errors no number of warnings makes the run fail.
C22_ExitStatusIsTotal ==
    main_pc = "exited" =>
        LET total == ErrorCount(results)
                        + (IF args.warnings_as_errors THEN WarningCount(results) ELSE 0)
        IN  /\ exit_status \in {0, 1}
            /\ exit_status = 0 <=> total = 0
            /\ report.verdict = (IF total = 0 THEN "Passed" ELSE "Failed")
            /\ report.verdict = "Failed" => report.total_errors = total
            /\ ~args.warnings_as_errors => (exit_status = 0 <=> ErrorCount(results) = 0)

\* Both flags set, no error, one warning: the run fails.
C22_Witness ==
    /\ main_pc = "exited"
    /\ args.warnings_as_errors
    /\ args.ignore_warnings
    /\ ErrorCount(results) = 0
    /\ WarningCount(results) = 1
    /\ exit_status = 1

\* C26: the number print_warnings prints as "Total warnings" equals the total
\* number of warnings print_results computes for the same results (yml files +
\* duplicated jobs + inexistent nodesets), and print_warnings prints nothing
\* exactly when that total is 0.
C26_PrintedTotalIsTotal ==
    (main_pc \in {"verdict", "exited"} /\ (args.warnings_as_errors \/ ~args.ignore_warnings)) =>
        /\ report.warnings_printed <=> TotalWarnings(results) # 0
        /\ report.total_warnings # NotSet => report.total_warnings = TotalWarnings(results)

\* The references to a missing playbook in the files: the jobs the loader
\* keeps whose `run` is a path that does not exist (the jobs of the family
\* name a playbook in `run` only).
MissingPlaybooks(fs, files) ==
    {<<i, j>> \in (DOMAIN files) \X (1..MaxDocsPerFile) :
        IF files[i].state # "yaml" THEN FALSE
        ELSE IF j \notin DOMAIN files[i].docs THEN FALSE
        ELSE IF "job" \notin DOMAIN files[i].docs[j] THEN FALSE
        ELSE IF "run" \notin DOMAIN files[i].docs[j].job THEN FALSE
        ELSE /\ files[i].docs[j].job.run.t = "str"
             /\ files[i].docs[j].job.run.v \notin fs}

\* The run has ended: print_results exited, the loader exited, or an exception
\* left main.
RunEnded == main_pc \in {"exited", "raised"}

\* C21: invalid playbook paths count as errors only when --check-playbook-paths
\* is given.  With the flag and a job referencing a missing playbook the run
\* ends with a non-zero exit status, and its report gives the number of
\* invalid paths; without the flag the count stays 0 and the exit status is
\* that of the other errors (and of the warnings under warnings_as_errors).
C21_FlagGatesPlaybookErrors ==
    LET n == Cardinality(MissingPlaybooks(main_fs, good_yaml))
    IN  /\ (RunEnded /\ args.check_playbook_paths /\ n > 0) => exit_status # 0
        /\ (report.verdict # "none" /\ args.check_playbook_paths) =>
               /\ results.errors.playbook_paths = n
               /\ n > 0 => (report.verdict = "Failed" /\ report.playbook_path_errors = n)
        /\ (report.verdict # "none" /\ ~args.check_playbook_paths) =>
               /\ results.errors.playbook_paths = 0
               /\ report.playbook_path_errors = NotSet
               /\ exit_status = 0 <=>
                      /\ results.errors.yaml = 0
                      /\ results.errors.duplicated_semaphores = 0
                      /\ args.warnings_as_errors => WarningCount(results) = 0

\* The flag is given, two jobs name a missing playbook, nothing else is
\* wrong: the run fails and reports two playbook path errors.
C21_Witness ==
    /\ main_pc = "exited"
    /\ args.check_playbook_paths
    /\ Cardinality(MissingPlaybooks(main_fs, good_yaml)) = 2
    /\ results.errors.yaml = 0
    /\ results.errors.duplicated_semaphores = 0
    /\ WarningCount(results) = 0
    /\ report.playbook_path_errors = 2
    /\ exit_status = 1

\* C24: every run reaches print_results: a run that has ended has printed
\* Passed or Failed, and a file that fails YAML parsing in lint is counted as
\* one YAML error without stopping the run before that report.
C24_AlwaysReachesReport ==
    /\ main_pc # "lint" => results.errors.yaml >= Cardinality({i \in DOMAIN good_yaml :
                                                                good_yaml[i].state = "invalid"})
    /\ RunEnded => report.verdict \in {"Passed", "Failed"}
====
